---- MODULE Spec2Model ----
(***************************************************************************)
(* A model of synthea: the context compiler (ContextManager), the command  *)
(* parser (ChatbotParser), the generation worker (SyntheaServer) with its  *)
(* request/response queues, the two consumers of the response queue (the  *)
(* test client of the repository and the dispatch loop described by the    *)
(* design document).                                                       *)
(*                                                                         *)
(* Texts.  A text is a sequence of pieces (TLA+ strings); the string it    *)
(* stands for is the concatenation of its pieces.  A piece is either       *)
(* the command prefix, a run of whitespace, or a word without whitespace,  *)
(* so that str.split(), str.startswith(prefix) and " ".join() can be       *)
(* computed on it as Python computes them on the string.                   *)
(***************************************************************************)
EXTENDS Integers, Sequences, FiniteSets, TLC

VARIABLES
    \* ---- inputs of one compilation (ContextManager.compile_chat_history)
    chain,                  \* the reply chain, as message ids: chain[1] is the triggering message
    config,                 \* Config()
    default_system_prompt,  \* the default_system_prompt argument
    \* ---- ReplyChainIterator
    message_index,          \* ReplyChainIterator.message_index
    it_pos,                 \* position in chain of ReplyChainIterator.message
    \* ---- locals of compile_chat_history
    token_count,
    last_command_args,      \* <<>> is None, <<args>> a ParsedArgs
    system_prompt,          \* <<>> is None, <<text>> a str
    messages,               \* the turns, oldest first
    cpc,                    \* "walk", "done" (returned), "raised"
    visited,                \* history: positions of chain the walk has yielded
    rejected,               \* history: position of the message the budget check broke on (0: none)
    first_run,              \* history: what an earlier compilation of the same chain returned (<<>>: none)
    \* ---- locals of LanguageModel.queue_for_generation
    lpc,                    \* "idle", "loop" (in the while loop), "returned", "raised"
    generation_count,
    needs_call,
    last_completion,        \* <<>> is "", <<c>> a completion
    chat_history,           \* the turns the loop appended to the compiled context, in order
    tool_call,              \* <<>> is unbound, <<v>> the value json.loads returned last
    received,               \* history: the completions as the service sent them, in order
    \* ---- the client's on_message handlers
    client,                 \* the client class that runs: "SyntheaClient" or "LLMClient"
    inbox,                  \* the messages on_message was called for, in order
    hpc,                    \* per message: "start", "respond", "finally", "done"
    reactions,              \* per message: the bot's reactions on it
    replies,                \* per message: the replies the handler posted to it, in order
    handling_failed,        \* history, per message: the except block ran
    \* ---- SyntheaUtilities.split_text
    input_text,             \* the text argument, a sequence of characters
    max_length,             \* the max_length argument
    pieces,                 \* <<>> before the call returned, <<list>> the list returned
    \* ---- ContextManager._read_attachment, step by step
    attachment,             \* the attachment argument
    apc,                    \* "idle", "read", "save", "open", "extract", "remove", "returned", "raised"
    attachment_string,      \* the text gathered so far
    pages_left,             \* the pages of reader.pages not yet extracted
    local_files,            \* the names of the files in the working directory
    \* ---- VisionModel.get_caption_for_image and its ImageDatabase
    image_database,         \* the images table: url -> description, for the urls stored
    caption_calls,          \* the calls made, in order: [image_url, pc, description]
    service_requests,       \* history: url -> the requests sent to the captioning service
    \* ---- CharactersDatabase
    characters,             \* the characters table: id -> [owner, description]
    servers,                \* the servers table
    server_characters,      \* the server_characters table: pairs <<server_id, char_id>>
    db_call,                \* history: the last call on the database and how it ended
    memberships,            \* history: the pairs <<server_id, char_id>> added and not removed since
    orphaned,               \* history: the pairs a deletion of the character ended, not added again since
    \* ---- SyntheaClient.send_response
    response_text,          \* the number of characters of response_text
    given_text,             \* history: the number of characters send_response was called with
    embed,                  \* whether an embed was passed
    message_to_reply,       \* <<>> (None) or <<id>>: the message of the user
    msg_index,
    last_message,           \* <<>> (None) or <<id>>: the message sent last
    sent,                   \* history: the messages sent, in order; message k has id k
    spc,                    \* where send_response is: "idle", "start", "loop", "returned", "raised"
    \* ---- the two queues between the submitter and the worker
    request_queue,          \* GenerationRequests, oldest first
    response_queue,         \* ResponseUpdates, oldest first
    \* ---- SyntheaServer.run
    wpc,                    \* "get" (blocked on request_queue.get), "stream", "dead"
    generation_request,     \* the request being served (<<>>: none)
    response,               \* the text generated so far for it
    token_chars,            \* characters per token of the generation under way
    \* ---- history of the pipeline
    enqueued,               \* every request put on the request queue, in order
    emitted,                \* every update put on the response queue, in order
    consumed,               \* every update taken from the response queue, in order
    failed,                 \* the requests (by ordinal) whose generation raised
    \* ---- the dispatch side of the submitter process
    next_response_id,       \* the id the next enqueue allocates
    in_progress,            \* the in-progress set of response ids
    response_states,        \* the ResponseState table: id -> [outgoing_message_chain, is_cancelled]
    indicators,             \* id -> the indicator shown on the triggering message
    transport,              \* history: id -> the sends, edits, deletes and reactions made for it
    processed,              \* history: id -> the texts of the updates processed (not discarded)
    removed                 \* history: id -> how often it was removed from the ResponseState table

loopVars == <<lpc, generation_count, needs_call, last_completion, chat_history,
              tool_call, received>>

handlerVars == <<client, inbox, hpc, reactions, replies, handling_failed>>

splitVars == <<input_text, max_length, pieces>>

attachVars == <<attachment, apc, attachment_string, pages_left, local_files>>

captionVars == <<image_database, caption_calls, service_requests>>

dbVars == <<characters, servers, server_characters, db_call, memberships, orphaned>>

sendVars == <<response_text, given_text, embed, message_to_reply, msg_index,
              last_message, sent, spc>>

utilVars == <<splitVars, attachVars, captionVars, dbVars, sendVars>>

compileVars == <<chain, config, default_system_prompt, message_index, it_pos,
                 token_count, last_command_args, system_prompt, messages, cpc, visited,
                 rejected, first_run, loopVars, handlerVars, utilVars>>

dispatchVars == <<next_response_id, in_progress, response_states, indicators,
                  transport, processed, removed>>

pipeVars == <<request_queue, response_queue, wpc, generation_request, response,
              token_chars, enqueued, emitted, consumed, failed, dispatchVars>>

vars == <<compileVars, pipeVars>>

-----------------------------------------------------------------------------
(* Bounds of the model *)

MaxChain == 3
MaxPromptLen == 70
MaxRequests == 2
MaxCalls == 5
MaxBatches == 2

(* Program constants *)

EST_CHARS_PER_TOKEN == 3

-----------------------------------------------------------------------------
(* Texts *)

RECURSIVE TextLen(_)
TextLen(t) == IF t = <<>> THEN 0 ELSE Len(Head(t)) + TextLen(Tail(t))

\* the string of n copies of s
RECURSIVE Rep(_, _)
Rep(s, n) == IF n = 0 THEN ""
             ELSE LET h == Rep(s, n \div 2)
                  IN  IF n % 2 = 0 THEN h \o h ELSE h \o h \o s

Whitespace == {" ", "  ", "\n", "\n\n"}

\* str.lower() on the pieces of the vocabulary: only the prefix has capitals
LowerPiece(p) == IF p = "!SYN " THEN "!syn " ELSE p

\* text.lower().startswith(prefix.lower())
StartsWithPrefix(t, prefix) == t # <<>> /\ LowerPiece(Head(t)) = LowerPiece(prefix)

\* str.split(): the maximal runs of non-whitespace
Split(t) == SelectSeq(t, LAMBDA p : p \notin Whitespace)

\* " ".join(words)
RECURSIVE Join(_)
Join(ws) == IF ws = <<>> THEN <<>>
            ELSE IF Len(ws) = 1 THEN ws
            ELSE <<Head(ws), " ">> \o Join(Tail(ws))

\* len(text) // EST_CHARS_PER_TOKEN
Tokens(t) == TextLen(t) \div EST_CHARS_PER_TOKEN

TextPart(t) == [type |-> "text", text |-> t]


-----------------------------------------------------------------------------
(* ChatbotParser.parse: argparse over the whitespace-split command *)

SpFlags == {"-sp", "-system-prompt", "--use-as-system-prompt"}
ImFlags == {"-im", "--use-image-model"}
CharFlags == {"-c", "-char", "--character"}
HelpFlags == {"-h", "--help"}
\* the words of the vocabulary that start with "-" and are no option of the parser
UnknownFlags == {"-x"}
OptionLike == SpFlags \cup ImFlags \cup CharFlags \cup HelpFlags \cup UnknownFlags

\* ParsedArgs(): character None (<<>>), both flags False, prompt None
NewParsedArgs == [character |-> <<>>, use_as_system_prompt |-> FALSE,
                  use_image_model |-> FALSE, prompt |-> <<>>]

Raise(e) == [raised |-> e, args |-> NewParsedArgs]

\* parse_args(words, namespace): options are read up to the first positional;
\* the positional "prompt" (nargs=REMAINDER) takes every word from there on
RECURSIVE ParseArgs(_, _)
ParseArgs(ws, ns) ==
    IF ws = <<>> THEN [raised |-> "", args |-> ns]
    ELSE LET w == Head(ws) IN
         IF w \in SpFlags THEN ParseArgs(Tail(ws), [ns EXCEPT !.use_as_system_prompt = TRUE])
         ELSE IF w \in ImFlags THEN ParseArgs(Tail(ws), [ns EXCEPT !.use_image_model = TRUE])
         ELSE IF w \in CharFlags THEN
              IF Len(ws) >= 2 /\ ws[2] \notin OptionLike
              THEN ParseArgs(SubSeq(ws, 3, Len(ws)), [ns EXCEPT !.character = <<ws[2]>>])
              ELSE Raise("ArgumentError")
         ELSE IF w \in HelpFlags THEN Raise("ParserExitedException")
         ELSE IF w \in UnknownFlags THEN Raise("CommandError")
         ELSE [raised |-> "", args |-> [ns EXCEPT !.prompt = Join(ws)]]

\* ChatbotParser.parse(command): strip the prefix, split, parse, join the prompt
Parse(command, cfg) ==
    LET stripped == IF StartsWithPrefix(command, cfg.command_start_str)
                    THEN Tail(command) ELSE command
    IN  ParseArgs(Split(stripped), NewParsedArgs)

-----------------------------------------------------------------------------
(* ContextManager: content extraction *)

BotUserId == "bot"
SYSTEM_TAG == "SYSTEM"

\* CharactersDatabase.load_character: the characters the store holds
CharacterIds == {"bob"}
DisplayName(char_id) == IF char_id = "bob" THEN "Bob" ELSE char_id

TextTypes == {"", "text/plain"}
PdfTypes == {"application/pdf"}
ImageTypes == {"image/png"}

RECURSIVE PdfText(_)
PdfText(pages) == IF pages = <<>> THEN <<>>
                  ELSE <<"\n">> \o Head(pages) \o PdfText(Tail(pages))

\* _read_attachment: <<>> is None, <<[type, string]>> the tuple returned
ReadAttachment(att, cfg) ==
    IF att.content_type \in TextTypes THEN <<[type |-> "text", string |-> att.data]>>
    ELSE IF att.content_type \in PdfTypes THEN <<[type |-> "text", string |-> PdfText(att.pages)]>>
    ELSE IF att.content_type \in ImageTypes THEN
         IF ~cfg.image_processing_enabled THEN <<>>
         ELSE <<[type |-> "image_url", string |-> <<att.url>>]>>
    ELSE <<[type |-> "", string |-> <<>>]>>

\* str.isspace()
IsSpace(t) == t # <<>> /\ \A i \in 1..Len(t) : t[i] \in Whitespace

EmptyNotice == <<"\n\n", "SYSTEM:", " ", "A", " ", "file", " ", "was", " ", "attached", " ",
                 "to", " ", "this", " ", "message,", " ", "but", " ", "it", " ", "is", " ",
                 "either", " ", "empty", " ", "or", " ", "is", " ", "not", " ", "a", " ",
                 "file", " ", "type", " ", "you", " ", "can", " ", "read.">>
TooLargeNotice == <<"\n\n", "SYSTEM:", " ", "A", " ", "file", " ", "was", " ", "attached", " ",
                    "to", " ", "this", " ", "message,", " ", "but", " ", "it", " ", "was", " ",
                    "too", " ", "large", " ", "to", " ", "be", " ", "read.">>
FileNotice(filename, content) ==
    <<"\n\n", "SYSTEM:", " ", "A", " ", "file", " ", "called", " ", filename, " ", "was", " ",
      "attached", " ", "to", " ", "this", " ", "message.", " ", "Here", " ", "are", " ",
      "the", " ", "contents:", "\n", " ">> \o content

\* the content part _get_content appends for one attachment (<<>>: skipped)
AttachmentPart(att, remaining_tokens, cfg) ==
    LET r == ReadAttachment(att, cfg) IN
    IF r = <<>> THEN <<>>
    ELSE LET c == r[1].string IN
         IF c = <<>> \/ TextLen(c) = 0 \/ IsSpace(c) THEN <<TextPart(EmptyNotice)>>
         ELSE IF r[1].type = "image_url" THEN <<[type |-> "image_url", url |-> c[1]]>>
         ELSE IF Tokens(c) > remaining_tokens THEN <<TextPart(TooLargeNotice)>>
         ELSE <<TextPart(FileNotice(att.filename, c))>>

RECURSIVE AttachmentParts(_, _, _)
AttachmentParts(atts, remaining_tokens, cfg) ==
    IF atts = <<>> THEN <<>>
    ELSE AttachmentPart(Head(atts), remaining_tokens, cfg)
         \o AttachmentParts(Tail(atts), remaining_tokens, cfg)

\* the tokens _get_content counts for a list of content parts
RECURSIVE PartsTokens(_)
PartsTokens(parts) ==
    IF parts = <<>> THEN 0
    ELSE (IF Head(parts).type = "text" THEN Tokens(Head(parts).text) ELSE 0)
         + PartsTokens(Tail(parts))

\* the text the message is read from
MessageText(m) == IF m.author = BotUserId /\ m.embeds # <<>>
                  THEN m.embeds[1].description ELSE m.clean_content

\* _get_content(message, remaining_tokens, config) -> (contents, tokens)
GetContent(m, remaining_tokens, cfg) ==
    LET contents == <<TextPart(MessageText(m))>>
                    \o AttachmentParts(m.attachments, remaining_tokens, cfg)
    IN  [contents |-> contents, tokens |-> PartsTokens(contents)]

\* _extract_text_from_content
RECURSIVE ExtractText(_)
ExtractText(content) ==
    IF content = <<>> THEN <<>>
    ELSE (IF Head(content).type = "text" THEN Head(content).text ELSE <<>>)
         \o ExtractText(Tail(content))

\* _inject_username: the annotation inserted first (<<>>: load_character gave None
\* and the subscript raised)
NameAnnotation(m) ==
    IF m.author = BotUserId /\ m.embeds # <<>> /\ m.embeds[1].footer # ""
    THEN IF m.embeds[1].footer \in CharacterIds
         THEN <<TextPart(<<DisplayName(m.embeds[1].footer), ": ">>)>>
         ELSE <<>>
    ELSE IF m.author = BotUserId THEN <<TextPart(<<"You", ": ">>)>>
    ELSE <<TextPart(<<m.display_name, ": ">>)>>

IsSystemMessage(m) ==
    m.author = BotUserId /\ m.embeds # <<>> /\ m.embeds[1].footer = SYSTEM_TAG


-----------------------------------------------------------------------------
(* The transport: the messages a reply chain is made of *)

UserMessage(t, atts) ==
    [author |-> "u1", display_name |-> "Al", clean_content |-> t,
     embeds |-> <<>>, attachments |-> atts]

BotMessage(t, embeds) ==
    [author |-> BotUserId, display_name |-> "Synthea", clean_content |-> t,
     embeds |-> embeds, attachments |-> <<>>]

TextFile == [content_type |-> "text/plain", data |-> <<"data">>, pages |-> <<>>,
             filename |-> "f.txt", url |-> "http://f"]
ImageFile == [content_type |-> "image/png", data |-> <<>>, pages |-> <<>>,
              filename |-> "i.png", url |-> "http://i"]

\* fetch_message: the message behind each message id of the pool
Message(id) ==
    CASE id = "PlainShort"   -> UserMessage(<<"abc">>, <<>>)
      [] id = "CmdPlain"     -> UserMessage(<<"!syn ", "hello">>, <<>>)
      [] id = "CmdPin"       -> UserMessage(<<"!SYN ", "-sp", " ", "be", "  ", "terse">>, <<>>)
      [] id = "CmdPinEmpty"  -> UserMessage(<<"!syn ", "-sp">>, <<>>)
      [] id = "CmdUnknown"   -> UserMessage(<<"!syn ", "-x", " ", "hi">>, <<>>)
      [] id = "CmdHelp"      -> UserMessage(<<"!syn ", "-h">>, <<>>)
      [] id = "BotPlain"     -> BotMessage(<<"ok">>, <<>>)
      [] id = "BotCharacter" -> BotMessage(<<>>, <<[description |-> <<"hey", " ", "you">>, footer |-> "bob"]>>)
      [] id = "BotSystem"    -> BotMessage(<<>>, <<[description |-> <<"note">>, footer |-> SYSTEM_TAG]>>)
      [] id = "WithTextFile" -> UserMessage(<<"see">>, <<TextFile>>)
      [] id = "WithImage"    -> UserMessage(<<"look">>, <<ImageFile>>)
      [] id = "Long1"        -> UserMessage(<<Rep("a", 300)>>, <<>>)
      [] id = "Long2"        -> UserMessage(<<Rep("b", 300)>>, <<>>)
      [] id = "Long3"        -> UserMessage(<<Rep("c", 300)>>, <<>>)

Pool == {"PlainShort", "CmdPlain", "CmdPin", "CmdPinEmpty", "CmdUnknown",
         "BotPlain", "BotCharacter", "BotSystem", "WithTextFile", "WithImage"}

-----------------------------------------------------------------------------
(* ContextManager.compile_chat_history *)

\* Python truthiness of an Optional[str]: None and "" are false
Truthy(opt) == opt # <<>> /\ TextLen(opt[1]) > 0

\* a limit that forgets to reserve the tokens to generate
HistoryTokenLimit_NoReserve(cfg) == cfg.context_length

\* history_token_limit
HistoryTokenLimit(cfg) == cfg.context_length - cfg.max_new_tokens

\* a role assignment that makes every turn a user turn
Role_AlwaysUser(m) == "user"

Role(m) == IF m.author = BotUserId THEN "assistant" ELSE "user"

\* the command kept is the one of the message met last
KeepCommand_Latest(current, message_args) == <<message_args>>

\* "if not last_command_args: last_command_args = message_args" (a ParsedArgs is
\* always true)
KeepCommand(current, message_args) ==
    IF current = <<>> THEN <<message_args>> ELSE current

\* a loop that passes over a message the budget has no room for and goes on to
\* the older ones
LoopBody_SkipsTooLarge(m, pos) ==
    LET limit  == HistoryTokenLimit(config)
        got    == GetContent(m, limit - token_count, config)
        text   == ExtractText(got.contents)
        isCmd  == StartsWithPrefix(text, config.command_start_str)
        parsed == Parse(text, config)
        lca    == KeepCommand(last_command_args, parsed.args)
        pin    == ~Truthy(system_prompt) /\ lca[1].use_as_system_prompt
        content == IF isCmd THEN <<TextPart(parsed.args.prompt)>> ELSE got.contents
        added  == IF isCmd THEN Tokens(parsed.args.prompt) ELSE got.tokens
        name   == NameAnnotation(m)
        base   == [kind |-> "next", token_count |-> token_count,
                   last_command_args |-> last_command_args,
                   system_prompt |-> system_prompt, messages |-> messages]
        b1     == IF isCmd THEN [base EXCEPT !.last_command_args = lca] ELSE base
    IN  IF isCmd /\ parsed.raised # "" THEN [base EXCEPT !.kind = "raise"]
        ELSE IF isCmd /\ pin THEN [b1 EXCEPT !.system_prompt = <<lca[1].prompt>>]
        ELSE IF IsSystemMessage(m) THEN b1
        ELSE IF content = <<>> THEN b1
        ELSE IF added + token_count > limit THEN b1
        ELSE IF name = <<>> THEN [b1 EXCEPT !.kind = "raise"]
        ELSE [b1 EXCEPT !.messages = <<[role |-> Role(m), content |-> name \o content,
                                        msg |-> pos]>> \o messages,
                        !.token_count = token_count + added]

\* One pass of the body of the "async for" over the message at position pos of
\* the chain: what the locals become, and how the pass ends ("next": the loop
\* goes on, "break", or "raise").  A turn keeps in msg the position of the
\* message it was made from.
LoopBody(m, pos) ==
    LET limit  == HistoryTokenLimit(config)
        got    == GetContent(m, limit - token_count, config)
        text   == ExtractText(got.contents)
        isCmd  == StartsWithPrefix(text, config.command_start_str)
        parsed == Parse(text, config)
        lca    == KeepCommand(last_command_args, parsed.args)
        pin    == ~Truthy(system_prompt) /\ lca[1].use_as_system_prompt
        content == IF isCmd THEN <<TextPart(parsed.args.prompt)>> ELSE got.contents
        added  == IF isCmd THEN Tokens(parsed.args.prompt) ELSE got.tokens
        name   == NameAnnotation(m)
        base   == [kind |-> "next", token_count |-> token_count,
                   last_command_args |-> last_command_args,
                   system_prompt |-> system_prompt, messages |-> messages]
        b1     == IF isCmd THEN [base EXCEPT !.last_command_args = lca] ELSE base
    IN  IF isCmd /\ parsed.raised # "" THEN [base EXCEPT !.kind = "raise"]
        ELSE IF isCmd /\ pin THEN [b1 EXCEPT !.system_prompt = <<lca[1].prompt>>]
        ELSE IF IsSystemMessage(m) THEN b1
        ELSE IF content = <<>> THEN b1
        ELSE IF added + token_count > limit THEN [b1 EXCEPT !.kind = "break"]
        ELSE IF name = <<>> THEN [b1 EXCEPT !.kind = "raise"]
        ELSE [b1 EXCEPT !.messages = <<[role |-> Role(m), content |-> name \o content,
                                        msg |-> pos]>> \o messages,
                        !.token_count = token_count + added]

\* the text of the system turn, after the loop
SystemText(sp) ==
    LET s1 == IF ~Truthy(sp) THEN default_system_prompt ELSE sp[1]
        s2 == IF config.use_tools THEN s1 \o <<"\n">> \o config.tool_prompt ELSE s1
    IN  IF TextLen(s2) > 0 THEN s2 ELSE default_system_prompt

\* a history with the system turn put last
WithSystemTurn_Last(msgs, sp) ==
    msgs \o <<[role |-> "system", content |-> <<TextPart(SystemText(sp))>>, msg |-> 0]>>

\* the history returned: the system turn inserted first
WithSystemTurn(msgs, sp) ==
    <<[role |-> "system", content |-> <<TextPart(SystemText(sp))>>, msg |-> 0]>> \o msgs

\* ReplyChainIterator.__anext__ returns a message: the starting one on the first
\* call, later the reply-to target when the fetch succeeds; then the loop body runs
CompileYield ==
    /\ cpc = "walk"
    /\ message_index = 0 \/ it_pos < Len(chain)
    /\ LET pos == IF message_index = 0 THEN it_pos ELSE it_pos + 1
           r   == LoopBody(Message(chain[pos]), pos)
       IN  /\ message_index' = message_index + 1
           /\ it_pos' = pos
           /\ visited' = Append(visited, pos)
           /\ token_count' = r.token_count
           /\ last_command_args' = r.last_command_args
           /\ system_prompt' = r.system_prompt
           /\ messages' = IF r.kind = "break"
                          THEN WithSystemTurn(r.messages, r.system_prompt)
                          ELSE r.messages
           /\ cpc' = IF r.kind = "break" THEN "done"
                     ELSE IF r.kind = "raise" THEN "raised" ELSE "walk"
           /\ rejected' = IF r.kind = "break" THEN pos ELSE rejected
    /\ UNCHANGED <<chain, config, default_system_prompt, first_run>>
    /\ UNCHANGED <<pipeVars, loopVars, handlerVars, utilVars>>

\* what fetch_message raises when the message cannot be had, and the class each
\* error derives from
FetchErrors == {"NotFound", "HTTPException", "Forbidden"}

Superclass(e) == IF e \in {"NotFound", "Forbidden"} THEN "HTTPException" ELSE "Exception"

\* an except clause that names NotFound only
FetchFailures_OnlyNotFound == {"NotFound"}

\* the classes the except clause of __anext__ names
FetchFailures == {"NotFound", "HTTPException", "Forbidden"}

Caught(e) == e \in FetchFailures \/ Superclass(e) \in FetchFailures

\* __anext__ raises StopAsyncIteration: the message has no reference, or
\* fetch_message raised one of the three errors; the loop ends and the system
\* turn is added
CompileStop ==
    /\ cpc = "walk"
    /\ message_index > 0
    /\ \/ /\ it_pos = Len(chain)
          /\ message_index' = message_index
          /\ messages' = WithSystemTurn(messages, system_prompt)
          /\ cpc' = "done"
       \/ /\ it_pos < Len(chain)
          /\ message_index' = message_index + 1
          /\ \E e \in FetchErrors :
                IF Caught(e)
                THEN /\ messages' = WithSystemTurn(messages, system_prompt)
                     /\ cpc' = "done"
                ELSE /\ messages' = messages
                     /\ cpc' = "raised"
    /\ UNCHANGED <<chain, config, default_system_prompt, it_pos, token_count,
                   last_command_args, system_prompt, visited, rejected, first_run>>
    /\ UNCHANGED <<pipeVars, loopVars, handlerVars, utilVars>>


-----------------------------------------------------------------------------
(* The compilations explored: reply chains over a pool of messages *)

Chains == UNION {[1..n -> Pool] : n \in 1..MaxChain}

ContextLengths == {6, 40}

Configs == [context_length : ContextLengths, max_new_tokens : {2},
            command_start_str : {"!syn "}, use_tools : BOOLEAN,
            tool_prompt : {<<"Use", " ", "tools.">>},
            image_processing_enabled : {TRUE}]

DefaultPrompts == {<<"Be", " ", "kind.">>}

\* the text "" (a generated text is given by its numbers of tokens and characters:
\* the worker only ever extends it, so two texts of one generation with the same
\* numbers are the same string)
EmptyText == [tokens |-> 0, chars |-> 0]

\* the queues and the worker before anything was submitted
PipeIdle ==
    /\ request_queue = <<>>
    /\ response_queue = <<>>
    /\ wpc = "get"
    /\ generation_request = <<>>
    /\ response = EmptyText
    /\ token_chars = 0
    /\ enqueued = <<>>
    /\ emitted = <<>>
    /\ consumed = <<>>
    /\ failed = {}
    /\ next_response_id = 1
    /\ in_progress = {}
    /\ response_states = <<>>
    /\ indicators = <<>>
    /\ transport = <<>>
    /\ processed = <<>>
    /\ removed = <<>>

\* the state when the loop of compile_chat_history is entered
\* queue_for_generation has not been called
LoopIdle ==
    /\ lpc = "idle"
    /\ generation_count = 0
    /\ needs_call = TRUE
    /\ last_completion = <<>>
    /\ chat_history = <<>>
    /\ tool_call = <<>>
    /\ received = <<>>

\* split_text has not been called
SplitIdle ==
    /\ input_text = <<>>
    /\ max_length = 2000
    /\ pieces = <<>>

WorkingDirectory == {"config.yaml"}

\* _read_attachment is not running
AttachIdle ==
    /\ attachment = TextFile
    /\ apc = "idle"
    /\ attachment_string = <<>>
    /\ pages_left = <<>>
    /\ local_files = WorkingDirectory

ImageUrls == {"http://i", "http://j"}

\* no caption was asked for
CaptionIdle ==
    /\ image_database = <<>>
    /\ caption_calls = <<>>
    /\ service_requests = [u \in ImageUrls |-> 0]

NoCall == [op |-> "none"]

\* the character database as __init__ creates it
DbIdle ==
    /\ characters = <<>>
    /\ servers = {}
    /\ server_characters = {}
    /\ db_call = NoCall
    /\ memberships = {}
    /\ orphaned = {}

\* send_response is not running
SendIdle ==
    /\ response_text = 0
    /\ given_text = 0
    /\ embed = FALSE
    /\ message_to_reply = <<>>
    /\ msg_index = 0
    /\ last_message = <<>>
    /\ sent = <<>>
    /\ spc = "idle"

\* the helpers outside the pipeline are not in use
UtilIdle == SplitIdle /\ AttachIdle /\ CaptionIdle /\ DbIdle /\ SendIdle

\* no message has come in
HandlersIdle ==
    /\ client = "SyntheaClient"
    /\ inbox = <<>>
    /\ hpc = <<>>
    /\ reactions = <<>>
    /\ replies = <<>>
    /\ handling_failed = <<>>

CompileEntry ==
    /\ PipeIdle
    /\ LoopIdle
    /\ HandlersIdle
    /\ UtilIdle
    /\ message_index = 0
    /\ it_pos = 1
    /\ token_count = Tokens(default_system_prompt)
    /\ last_command_args = <<>>
    /\ system_prompt = <<>>
    /\ messages = <<>>
    /\ cpc = "walk"
    /\ visited = <<>>
    /\ rejected = 0
    /\ first_run = <<>>

InitCompile ==
    /\ chain \in Chains
    /\ config \in Configs
    /\ default_system_prompt \in DefaultPrompts
    /\ CompileEntry

NextCompile == CompileYield \/ CompileStop

SpecCompile == InitCompile /\ [][NextCompile]_vars


-----------------------------------------------------------------------------
(* Claims about the compiled context *)

\* the estimate of what a compiled history contains: len(text) // 3 summed over
\* every text part of every turn
RECURSIVE Estimate(_)
Estimate(msgs) == IF msgs = <<>> THEN 0
                  ELSE PartsTokens(Head(msgs).content) + Estimate(Tail(msgs))

Returned == cpc = "done"

\* the conversational turns of the history returned
Turns == SelectSeq(messages, LAMBDA t : t.role # "system")

\* C1: the context returned by compile_chat_history respects the token budget:
\* the estimate of its system turn and of every content part of every turn,
\* name annotations included, is at most context_length - max_new_tokens.
C1_BudgetRespected ==
    Returned => Estimate(messages) <= HistoryTokenLimit(config)

\* the command a visited message parses to (only for messages that are commands)
IsCommand(id) ==
    StartsWithPrefix(ExtractText(GetContent(Message(id), 0, config).contents),
                     config.command_start_str)
CommandOf(id) == Parse(ExtractText(GetContent(Message(id), 0, config).contents), config)

\* the visited command messages that carry -sp and a prompt body
PinCandidates ==
    {i \in 1..Len(visited) :
        /\ IsCommand(chain[visited[i]])
        /\ CommandOf(chain[visited[i]]).raised = ""
        /\ CommandOf(chain[visited[i]]).args.use_as_system_prompt
        /\ TextLen(CommandOf(chain[visited[i]]).args.prompt) > 0}

ClosestPin == visited[CHOOSE i \in PinCandidates : \A j \in PinCandidates : i <= j]

\* the system text a pinned body gives (the tool instructions follow it when
\* tool use is enabled)
PinnedSystemText(body) ==
    IF config.use_tools THEN body \o <<"\n">> \o config.tool_prompt ELSE body

\* C9: whenever the walked history holds a command message carrying -sp, the one
\* closest to the triggering message is pinned: it contributes no turn, and the
\* system turn's text is its prompt body, whatever other commands the chain holds.
\* (Read in the claim's favour: a command with an empty body, and one the walk
\* stopped at for the budget, are left out.)
C9_ClosestPinWins ==
    (Returned /\ PinCandidates # {} /\ rejected # ClosestPin) =>
        /\ \A k \in 1..Len(messages) : messages[k].msg # ClosestPin
        /\ messages[1].role = "system"
        /\ messages[1].content[1].text
              = PinnedSystemText(CommandOf(chain[ClosestPin]).args.prompt)


-----------------------------------------------------------------------------
(* The scenario of three 300-character messages under a limit of 220 tokens *)

LongChain == <<"Long1", "Long2", "Long3">>

ScenarioChains == {SubSeq(LongChain, 1, n) : n \in 1..3}

ScenarioConfigs == [context_length : {2268}, max_new_tokens : {2048},
                    command_start_str : {"!syn "}, use_tools : BOOLEAN,
                    tool_prompt : {<<"Use", " ", "tools.">>},
                    image_processing_enabled : {TRUE}]

ScenarioPrompts == {<<Rep("s", n)>> : n \in 0..MaxPromptLen}

InitScenario ==
    /\ chain \in ScenarioChains
    /\ config \in ScenarioConfigs
    /\ default_system_prompt \in ScenarioPrompts
    /\ CompileEntry

SpecScenario == InitScenario /\ [][NextCompile]_vars

\* a fetch of a reply target failed during the walk
FetchFailed == message_index > Len(visited)

\* the positions of the messages the turns were made from, oldest first
TurnSources == [k \in 1..Len(Turns) |-> Turns[k].msg]

ScenarioRun ==
    /\ Returned
    /\ chain = LongChain
    /\ config.context_length - config.max_new_tokens = 220
    /\ ~FetchFailed

\* C10 as stated: with 3 characters per token and a history limit of 220, three
\* plain user messages of 300 characters compile to exactly two turns, the
\* triggering message's and the one before it; the oldest is discarded.
C10_TwoTurns ==
    ScenarioRun => TurnSources = <<2, 1>> /\ rejected = 3

\* C10 amended: the same, for a default system prompt of at most 62 characters
\* (an estimate of at most 20 tokens), which the budget also has to hold.
C10_TwoTurnsWhenPromptFits ==
    (ScenarioRun /\ TextLen(default_system_prompt) <= 62) =>
        TurnSources = <<2, 1>> /\ rejected = 3

C10_Witness ==
    /\ ScenarioRun
    /\ TextLen(default_system_prompt) = 62
    /\ TurnSources = <<2, 1>>
    /\ rejected = 3

(***************************************************************************)
(* The generation pipeline: SyntheaServer.run in the worker process, the   *)
(* request queue and the response queue (multiprocessing.Queue: first in,  *)
(* first out).                                                             *)
(***************************************************************************)

\* multiprocessing.Queue.put and .get
QueuePut(q, x) == Append(q, x)

QueueGet_Newest(q) == [item |-> q[Len(q)], rest |-> SubSeq(q, 1, Len(q) - 1)]

QueueGet(q) == [item |-> Head(q), rest |-> Tail(q)]

\* GenerationRequest(response_index, context); req is the ordinal of the put
GenerationRequest(response_index, context, n) ==
    [response_index |-> response_index, context |-> context, req |-> n]

\* the keyword and positional parameters of ResponseUpdate.__init__
ResponseUpdateParams_WithError ==
    {"response_index", "message_is_completed", "new_message", "error"}

ResponseUpdateParams == {"response_index", "message_is_completed", "new_message"}

NoError == "none"

\* ResponseUpdate(**kw): a call naming a parameter __init__ does not have raises
\* TypeError; new_message defaults to ""
ResponseUpdate(kw) ==
    IF DOMAIN kw \subseteq ResponseUpdateParams
    THEN [raised |-> "",
          update |-> [response_index |-> kw.response_index,
                      message_is_completed |-> kw.message_is_completed,
                      new_message |-> IF "new_message" \in DOMAIN kw
                                      THEN kw.new_message ELSE EmptyText,
                      error |-> IF "error" \in DOMAIN kw THEN kw.error ELSE NoError]]
    ELSE [raised |-> "TypeError"]

\* the inner for loop of run asks for at most this many tokens per update
BatchTokens == 200

\* what the model may do in a generation
TokenChars == {6, 11}
TailTokens == {0, 1}

\* an update as the histories record it: with the ordinal of its request
Tagged(u, n) ==
    [response_index |-> u.response_index,
     message_is_completed |-> u.message_is_completed,
     new_message |-> u.new_message, error |-> u.error, req |-> n]

\* a response that holds the tokens of the last pass only
Extend_LastPassOnly(text, ntokens, tc) ==
    [tokens |-> ntokens, chars |-> ntokens * tc]

Extend(text, ntokens, tc) ==
    [tokens |-> text.tokens + ntokens, chars |-> text.chars + ntokens * tc]

\* request_queue.get() and model.begin_stream(context), which succeeds
WorkerReceive ==
    /\ wpc = "get"
    /\ request_queue # <<>>
    /\ LET g == QueueGet(request_queue) IN
        /\ request_queue' = g.rest
        /\ generation_request' = <<g.item>>
    /\ \E tc \in TokenChars : token_chars' = tc
    /\ response' = EmptyText
    /\ wpc' = "stream"
    /\ UNCHANGED <<response_queue, enqueued, emitted, consumed, failed>>
    /\ UNCHANGED <<compileVars, dispatchVars>>

\* one pass of "while not eos": up to BatchTokens tokens are appended to the
\* response (the token that comes with eos is dropped) and the whole response so
\* far is put on the response queue
WorkerBatch ==
    /\ wpc = "stream"
    /\ \E eos \in BOOLEAN :
       \E ntokens \in (IF eos THEN TailTokens ELSE {BatchTokens}) :
        /\ ~eos => response.tokens + BatchTokens <= MaxBatches * BatchTokens
        /\ response' = Extend(response, ntokens, token_chars)
        /\ LET r == ResponseUpdate(
                        [response_index |-> generation_request[1].response_index,
                         message_is_completed |-> eos,
                         new_message |-> response'])
               u == Tagged(r.update, generation_request[1].req)
           IN  /\ response_queue' = QueuePut(response_queue, u)
               /\ emitted' = Append(emitted, u)
        /\ wpc' = IF eos THEN "get" ELSE "stream"
    /\ UNCHANGED <<request_queue, generation_request, token_chars, enqueued,
                   consumed, failed>>
    /\ UNCHANGED <<compileVars, dispatchVars>>

\* the except clause of run, entered for the request g: it builds the update it
\* means to put; if building it raises, the exception leaves run and the worker
\* process ends
ExceptClause(g) ==
    LET r == ResponseUpdate([response_index |-> g.response_index,
                             message_is_completed |-> TRUE,
                             error |-> "Exception"])
    IN  /\ failed' = failed \cup {g.req}
        /\ IF r.raised = ""
           THEN /\ response_queue' = QueuePut(response_queue, Tagged(r.update, g.req))
                /\ emitted' = Append(emitted, Tagged(r.update, g.req))
                /\ wpc' = "get"
           ELSE /\ wpc' = "dead"
                /\ UNCHANGED <<response_queue, emitted>>

\* request_queue.get() and model.begin_stream(context), which raises
WorkerReceiveFails ==
    /\ wpc = "get"
    /\ request_queue # <<>>
    /\ LET g == QueueGet(request_queue) IN
        /\ request_queue' = g.rest
        /\ generation_request' = <<g.item>>
        /\ ExceptClause(g.item)
    /\ UNCHANGED <<response, token_chars, enqueued, consumed>>
    /\ UNCHANGED <<compileVars, dispatchVars>>

\* model.generator.stream() raises during a pass
WorkerBatchFails ==
    /\ wpc = "stream"
    /\ ExceptClause(generation_request[1])
    /\ UNCHANGED <<request_queue, generation_request, response, token_chars,
                   enqueued, consumed>>
    /\ UNCHANGED <<compileVars, dispatchVars>>

Worker == WorkerReceive \/ WorkerBatch \/ WorkerReceiveFails \/ WorkerBatchFails

(***************************************************************************)
(* The test harness of SyntheaServer.py: the main loop submits what the    *)
(* user types, test_client prints what the worker answers.                 *)
(***************************************************************************)

Instruction == "[INST] hi [/INST]"

\* request_queue.put(GenerationRequest(1, f"[INST] {instruction} [/INST]"))
MainPut ==
    /\ Len(enqueued) < MaxRequests
    /\ LET g == GenerationRequest(1, Instruction, Len(enqueued) + 1) IN
        /\ request_queue' = QueuePut(request_queue, g)
        /\ enqueued' = Append(enqueued, g)
    /\ UNCHANGED <<response_queue, wpc, generation_request, response, token_chars,
                   emitted, consumed, failed>>
    /\ UNCHANGED <<compileVars, dispatchVars>>

\* one pass of the loop of test_client
TestClient ==
    /\ response_queue # <<>>
    /\ LET g == QueueGet(response_queue) IN
        /\ response_queue' = g.rest
        /\ consumed' = Append(consumed, g.item)
    /\ UNCHANGED <<request_queue, wpc, generation_request, response, token_chars,
                   enqueued, emitted, failed>>
    /\ UNCHANGED <<compileVars, dispatchVars>>

\* nothing is being compiled
CompileIdle ==
    /\ chain = <<"PlainShort">>
    /\ config \in {c \in Configs : c.context_length = 40 /\ ~c.use_tools}
    /\ default_system_prompt \in DefaultPrompts
    /\ message_index = 0
    /\ it_pos = 1
    /\ token_count = 0
    /\ last_command_args = <<>>
    /\ system_prompt = <<>>
    /\ messages = <<>>
    /\ cpc = "idle"
    /\ visited = <<>>
    /\ rejected = 0
    /\ first_run = <<>>
    /\ LoopIdle
    /\ HandlersIdle
    /\ UtilIdle

InitHarness == CompileIdle /\ PipeIdle

NextHarness == MainPut \/ Worker \/ TestClient

SpecHarness == InitHarness /\ [][NextHarness]_vars

\* the worker and the client are processes of their own: each keeps running
FairHarness ==
    /\ SpecHarness
    /\ WF_vars(WorkerReceive \/ WorkerReceiveFails)
    /\ WF_vars(WorkerBatch \/ WorkerBatchFails)
    /\ WF_vars(TestClient)

(***************************************************************************)
(* The dispatch side of the submitter process, after the design document:  *)
(* enqueue, the loop consuming the response queue, cancellation, the       *)
(* discarding of retained state, regeneration.                             *)
(***************************************************************************)

CHAR_LIMIT == 2000

Min(a, b) == IF a < b THEN a ELSE b

\* the slices [k * CHAR_LIMIT : (k + 1) * CHAR_LIMIT] of a text of nchars
\* characters, each given by its bounds
Resegment(nchars) ==
    [k \in 1..((nchars + CHAR_LIMIT - 1) \div CHAR_LIMIT) |->
        [from |-> (k - 1) * CHAR_LIMIT, to |-> Min(k * CHAR_LIMIT, nchars)]]

EmptySlice == [from |-> 0, to |-> 0]

TriggeringMessage == [author |-> "user", content |-> EmptySlice]

OutgoingMessage(slice) == [author |-> "bot", content |-> slice]

\* f with key k set to v, and f without key k
PutEntry(f, k, v) == [x \in DOMAIN f \cup {k} |-> IF x = k THEN v ELSE f[x]]

DropEntry(f, k) == [x \in DOMAIN f \ {k} |-> f[x]]

\* the history of effects with the effects ops made for id added
Effects(log, id, ops) ==
    PutEntry(log, id, (IF id \in DOMAIN log THEN log[id] ELSE <<>>) \o ops)

\* the history of removals with one more removal of id
Removal(log, id) ==
    PutEntry(log, id, (IF id \in DOMAIN log THEN log[id] ELSE 0) + 1)

\* the ordinals of the submissions of one run of the dispatcher
Submissions == {1, 2}

\* the last element of a sequence of slices (of no slice: the empty slice)
LastOf(chunks) == IF chunks = <<>> THEN EmptySlice ELSE chunks[Len(chunks)]

\* the work of enqueue(triggering_message, compiled_context) on a state given by
\* its table, in-progress set, indicators and transport history
EnqueueOn(states, inprog, inds, effects) ==
    LET id == next_response_id
        g  == GenerationRequest(id, Instruction, Len(enqueued) + 1)
    IN  /\ next_response_id' = id + 1
        /\ response_states' = PutEntry(states, id,
                [outgoing_message_chain |-> <<TriggeringMessage>>,
                 is_cancelled |-> FALSE])
        /\ in_progress' = inprog \cup {id}
        /\ indicators' = PutEntry(inds, id, "in_progress")
        /\ transport' = Effects(effects, id, <<"add_indicator">>)
        /\ request_queue' = QueuePut(request_queue, g)
        /\ enqueued' = Append(enqueued, g)

Enqueue ==
    /\ Len(enqueued) + 1 \in Submissions
    /\ EnqueueOn(response_states, in_progress, indicators, transport)
    /\ UNCHANGED <<response_queue, wpc, generation_request, response, token_chars,
                   emitted, consumed, failed, processed, removed>>
    /\ UNCHANGED compileVars

\* the first rule of the consuming loop: an update is dropped when ...
Discards_Unknown(u) == u.response_index \notin DOMAIN response_states

Discards(u) == u.response_index \notin in_progress

\* the chain after an update of a text cut into chunks, and what was done on the
\* transport for it
ChainAfter(omc, chunks, id) ==
    LET bots == Len(omc) - 1 IN
    IF bots = 0
    THEN [chain |-> Append(omc, OutgoingMessage(LastOf(chunks))),
          effects |-> <<"edit_indicator", "send">>]
    ELSE IF Len(chunks) > bots
    THEN [chain |-> Append([omc EXCEPT ![Len(omc)] =
                                OutgoingMessage(chunks[Len(chunks) - 1])],
                           OutgoingMessage(chunks[Len(chunks)])),
          effects |-> <<"edit", "send">>]
    ELSE [chain |-> [omc EXCEPT ![Len(omc)] = OutgoingMessage(LastOf(chunks))],
          effects |-> <<"edit">>]

\* one pass of the loop consuming the response queue
Dispatch ==
    /\ response_queue # <<>>
    /\ LET g  == QueueGet(response_queue)
           u  == g.item
           id == u.response_index
       IN
        /\ response_queue' = g.rest
        /\ consumed' = Append(consumed, u)
        /\ IF Discards(u)
           THEN UNCHANGED dispatchVars
           ELSE IF u.error # NoError
           THEN /\ indicators' = [indicators EXCEPT ![id] = "failed"]
                /\ transport' = Effects(transport, id,
                                         <<"failure_indicator", "send_error">>)
                /\ in_progress' = in_progress \ {id}
                /\ response_states' = DropEntry(response_states, id)
                /\ removed' = Removal(removed, id)
                /\ UNCHANGED <<next_response_id, processed>>
           ELSE LET r == ChainAfter(response_states[id].outgoing_message_chain,
                                    Resegment(u.new_message.chars), id)
                IN  /\ response_states' = [response_states EXCEPT
                            ![id].outgoing_message_chain = r.chain]
                    /\ processed' = PutEntry(processed, id,
                            Append(IF id \in DOMAIN processed
                                   THEN processed[id] ELSE <<>>, u.new_message))
                    /\ IF u.message_is_completed
                       THEN /\ indicators' = [indicators EXCEPT ![id] = "completed"]
                            /\ transport' = Effects(transport, id,
                                    r.effects \o <<"completion_indicator">>)
                            /\ in_progress' = in_progress \ {id}
                       ELSE /\ transport' = Effects(transport, id, r.effects)
                            /\ UNCHANGED <<indicators, in_progress>>
                    /\ UNCHANGED <<next_response_id, removed>>
    /\ UNCHANGED <<request_queue, wpc, generation_request, response, token_chars,
                   enqueued, emitted, failed>>
    /\ UNCHANGED compileVars

\* the user cancels a response that is in progress
Cancel ==
    /\ \E id \in in_progress :
        /\ in_progress' = in_progress \ {id}
        /\ indicators' = [indicators EXCEPT ![id] = "cancelled"]
        /\ response_states' = [response_states EXCEPT ![id].is_cancelled = TRUE]
        /\ transport' = Effects(transport, id, <<"cancelled_indicator">>)
    /\ UNCHANGED <<request_queue, response_queue, wpc, generation_request, response,
                   token_chars, enqueued, emitted, consumed, failed,
                   next_response_id, processed, removed>>
    /\ UNCHANGED compileVars

\* the state of a response that is no longer in progress is discarded
DiscardState ==
    /\ \E id \in DOMAIN response_states \ in_progress :
        /\ response_states' = DropEntry(response_states, id)
        /\ removed' = Removal(removed, id)
    /\ UNCHANGED <<request_queue, response_queue, wpc, generation_request, response,
                   token_chars, enqueued, emitted, consumed, failed,
                   next_response_id, in_progress, indicators, transport, processed>>
    /\ UNCHANGED compileVars

\* the user asks for a response that has ended to be generated again
Regenerate ==
    /\ Len(enqueued) + 1 \in Submissions
    /\ \E id \in DOMAIN response_states \ in_progress :
        /\ removed' = Removal(removed, id)
        /\ EnqueueOn(DropEntry(response_states, id), in_progress,
                     [indicators EXCEPT ![id] = "none"],
                     Effects(transport, id, <<"delete_chain", "clear_indicators">>))
    /\ UNCHANGED <<response_queue, wpc, generation_request, response, token_chars,
                   emitted, consumed, failed, processed>>
    /\ UNCHANGED compileVars

InitDispatch == CompileIdle /\ PipeIdle

NextDispatch == Enqueue \/ Worker \/ Dispatch \/ Cancel \/ DiscardState \/ Regenerate

SpecDispatch == InitDispatch /\ [][NextDispatch]_vars

\* the worker is a process of its own, the consuming loop a task that keeps
\* running, and retained state is discarded after a while
FairDispatch ==
    /\ SpecDispatch
    /\ WF_vars(WorkerReceive \/ WorkerReceiveFails)
    /\ WF_vars(WorkerBatch \/ WorkerBatchFails)
    /\ WF_vars(Dispatch)
    /\ WF_vars(DiscardState)

(***************************************************************************)
(* Claims about the worker and the queues.                                 *)
(***************************************************************************)

\* the positions in a history of the updates of request n
UpdatesOf(log, n) == {i \in DOMAIN log : log[i].req = n}

ErrorUpdatesOf(log, n) == {i \in UpdatesOf(log, n) : log[i].error # NoError}

FinalUpdatesOf(log, n) == {i \in UpdatesOf(log, n) : log[i].message_is_completed}

\* C4: when generation for a request raises in the worker, the worker puts on
\* the response queue exactly one update for that request that carries the error
\* and is marked completed, and nothing further for it.
C4_ErrorUpdateEmitted ==
    \A n \in failed :
        /\ Cardinality(ErrorUpdatesOf(emitted, n)) = 1
        /\ \A i \in ErrorUpdatesOf(emitted, n) :
              /\ emitted[i].message_is_completed
              /\ \A j \in UpdatesOf(emitted, n) : j <= i

\* C5: after a request has failed in the worker, every other request that is on
\* or comes onto the request queue is still served: the consumer eventually gets
\* a final update for it (unless its own generation fails).
C5_OthersStillServed ==
    \A n \in 1..MaxRequests :
        (failed # {} /\ n <= Len(enqueued) /\ n \notin failed)
            ~> (n \in failed \/ FinalUpdatesOf(consumed, n) # {})

\* C6: the consumer takes the updates in the order the worker put them; within
\* one response no snapshot is processed after a later (longer) one, and nothing
\* is processed after the final update.  (A response is told by its request:
\* the harness gives every request the id 1.)
C6_ConsumedInEmissionOrder ==
    /\ Len(consumed) <= Len(emitted)
    /\ \A i \in DOMAIN consumed : consumed[i] = emitted[i]
    /\ \A i, j \in DOMAIN consumed :
          (i < j /\ consumed[i].req = consumed[j].req) =>
              /\ ~consumed[i].message_is_completed
              /\ consumed[j].error = NoError =>
                    /\ consumed[i].new_message.tokens <= consumed[j].new_message.tokens
                    /\ consumed[i].new_message.chars <= consumed[j].new_message.chars

\* two responses were consumed to the end, the second one in three updates
C6_Witness ==
    /\ FinalUpdatesOf(consumed, 1) # {}
    /\ FinalUpdatesOf(consumed, 2) # {}
    /\ Cardinality(UpdatesOf(consumed, 2)) = 3
    /\ C6_ConsumedInEmissionOrder

\* C7: every request put on the request queue carries a response id greater
\* than the id of every request put before it.
C7_IdsIncrease ==
    \A i, j \in DOMAIN enqueued :
        i < j => enqueued[i].response_index < enqueued[j].response_index

(***************************************************************************)
(* Claims about the dispatch side.  In a run of the dispatcher the n-th    *)
(* submission gets the id n, so an id also names its request.              *)
(***************************************************************************)

\* the update at the head of the response queue is for a response that is not
\* in progress, and the consuming loop takes it
TakesUpdateOfRemoved ==
    /\ consumed' # consumed
    /\ Head(response_queue).response_index \notin in_progress

\* C2: an update the dispatcher dequeues for a response id that is no longer in
\* the in-progress set is discarded: nothing is sent, edited or reacted, and
\* neither the table nor the indicators change.
C2_DiscardedAfterRemoval ==
    [][TakesUpdateOfRemoved =>
          UNCHANGED <<transport, response_states, indicators, in_progress,
                      processed>>]_vars

ProcessedOf(id) == IF id \in DOMAIN processed THEN processed[id] ELSE <<>>

\* a response was cancelled with updates in flight, which were then consumed
\* and left the chain and the transport as they were at the cancellation
C2_Witness ==
    \E id \in DOMAIN indicators :
        /\ indicators[id] = "cancelled"
        /\ id \in DOMAIN response_states
        /\ Len(ProcessedOf(id)) = 1
        /\ Cardinality(UpdatesOf(consumed, id)) = 3
        /\ Len(response_states[id].outgoing_message_chain) = 2
        /\ transport[id] = <<"add_indicator", "edit_indicator", "send",
                             "cancelled_indicator">>

\* the response has ended: its generation raised or gave its final update, or
\* the user cancelled it
Ended(id) ==
    \/ id \in failed
    \/ FinalUpdatesOf(emitted, id) # {}
    \/ (id \in DOMAIN indicators /\ indicators[id] = "cancelled")

TimesSubmitted(id) ==
    Cardinality({i \in DOMAIN enqueued : enqueued[i].response_index = id})

\* C3: every id in the ResponseState table was submitted exactly once; no id is
\* removed from the table more than once; no update is processed for an id
\* after its removal; and the entry of a response that has ended does not stay
\* in the table forever.
C3_TableBalanced ==
    /\ [](\A id \in DOMAIN response_states : TimesSubmitted(id) = 1)
    /\ [](\A id \in DOMAIN removed : removed[id] = 1 /\ TimesSubmitted(id) = 1)
    /\ [][\A id \in DOMAIN removed : ProcessedOf(id)' = ProcessedOf(id)]_vars
    /\ \A id \in Submissions : Ended(id) ~> (id \notin DOMAIN response_states)

\* the bot messages of an outgoing chain (all but the triggering message)
BotMessages(omc) == SubSeq(omc, 2, Len(omc))

\* one bot message per chunk of a text of nchars characters
MessagesFor(nchars) ==
    [k \in DOMAIN Resegment(nchars) |-> OutgoingMessage(Resegment(nchars)[k])]

LastProcessed(id) == processed[id][Len(processed[id])]

\* the responses with a chain for which an update with a text was processed
Updated ==
    {id \in DOMAIN response_states \cap DOMAIN processed :
        LastProcessed(id).chars > 0}

\* the consuming loop processes (does not discard) an update with a text
ProcessesUpdate(id) ==
    /\ id \in DOMAIN processed'
    /\ ProcessedOf(id)' # ProcessedOf(id)
    /\ LastProcessed(id)'.chars > 0

NewEffects(id) == SubSeq(transport'[id], Len(transport[id]) + 1, Len(transport'[id]))

\* what C8 says of one pass of the consuming loop
EditsInPlace(id) ==
    (/\ ProcessesUpdate(id)
     /\ ProcessedOf(id) # <<>>
     /\ Len(Resegment(LastProcessed(id)'.chars))
            = Len(Resegment(LastProcessed(id).chars)))
    => /\ Len(response_states'[id].outgoing_message_chain)
            = Len(response_states[id].outgoing_message_chain)
       /\ NewEffects(id) \in {<<"edit">>, <<"edit", "completion_indicator">>}

\* C8: after any update with a text was processed for a response, its
\* outgoing chain holds one bot message per chunk of the text, in order, each
\* holding its chunk; and an update that leaves the chunk count as it was only
\* edits the last bot message.
C8_OneMessagePerChunk ==
    /\ [](\A id \in Updated :
            BotMessages(response_states[id].outgoing_message_chain)
                = MessagesFor(LastProcessed(id).chars))
    /\ [][\A id \in Submissions : EditsInPlace(id)]_vars

(***************************************************************************)
(* More claims about the compiled context.                                 *)
(***************************************************************************)

NoCommands == \A i \in DOMAIN chain : ~IsCommand(chain[i])

NoSystemMessages == \A i \in DOMAIN chain : ~IsSystemMessage(Message(chain[i]))

\* the history returned is the system turn followed by one turn per message of
\* the chain, the oldest message first
OneTurnPerMessage ==
    /\ Len(messages) = Len(chain) + 1
    /\ messages[1].role = "system"
    /\ \A k \in 1..Len(chain) :
          /\ messages[k + 1].role = Role(Message(chain[Len(chain) + 1 - k]))
          /\ messages[k + 1].msg = Len(chain) + 1 - k

\* C11 as stated: for a reply chain of length N without command messages the
\* history returned is one system turn, first, and N conversational turns in
\* the chronological order of their messages.
C11_AllTurns ==
    (Returned /\ NoCommands) => OneTurnPerMessage

\* C11 amended: the same, when every message of the chain could be fetched, the
\* budget check stopped at none of them and none is a message of the system.
C11_AllTurnsWhenAllFit ==
    (Returned /\ NoCommands /\ NoSystemMessages /\ ~FetchFailed /\ rejected = 0)
        => OneTurnPerMessage

C11_Witness ==
    /\ Returned
    /\ chain = <<"PlainShort", "BotCharacter", "WithTextFile">>
    /\ ~FetchFailed
    /\ rejected = 0
    /\ OneTurnPerMessage

(***************************************************************************)
(* generate_chat_history_from_chat called a second time for the same       *)
(* triggering message.                                                     *)
(***************************************************************************)

\* a walker that is the one the earlier call used up
ReplyChainIterator_Reused(starting_message) ==
    [message |-> it_pos, message_index |-> message_index]

\* ReplyChainIterator(starting_message)
ReplyChainIterator(starting_message) ==
    [message |-> starting_message, message_index |-> 0]

\* the call returned; the same message is compiled again: a walker is made for
\* it and compile_chat_history is entered anew
CompileAgain ==
    /\ cpc = "done"
    /\ first_run = <<>>
    /\ first_run' = <<[messages |-> messages, last_command_args |-> last_command_args,
                       fetch_failed |-> FetchFailed, fetched |-> Len(visited)]>>
    /\ LET history_iterator == ReplyChainIterator(1) IN
        /\ message_index' = history_iterator.message_index
        /\ it_pos' = history_iterator.message
    /\ token_count' = Tokens(default_system_prompt)
    /\ last_command_args' = <<>>
    /\ system_prompt' = <<>>
    /\ messages' = <<>>
    /\ cpc' = "walk"
    /\ visited' = <<>>
    /\ rejected' = 0
    /\ UNCHANGED <<chain, config, default_system_prompt>>
    /\ UNCHANGED <<pipeVars, loopVars, handlerVars, utilVars>>

TwicePool == {"PlainShort", "CmdPlain", "CmdPin", "BotPlain", "WithTextFile"}

InitTwice ==
    /\ chain \in UNION {[1..n -> TwicePool] : n \in 1..MaxChain}
    /\ config \in Configs
    /\ default_system_prompt \in DefaultPrompts
    /\ CompileEntry

NextTwice == CompileYield \/ CompileStop \/ CompileAgain

SpecTwice == InitTwice /\ [][NextTwice]_vars

\* the message graph did not change between the two calls: a fetch failed in
\* the second walk if and only if it failed in the first, and at the same place
SameGraph ==
    /\ FetchFailed = first_run[1].fetch_failed
    /\ FetchFailed => Len(visited) = first_run[1].fetched

VisitedCommands == {i \in 1..Len(visited) : IsCommand(chain[visited[i]])}

FirstVisitedCommand ==
    visited[CHOOSE i \in VisitedCommands : \A j \in VisitedCommands : i <= j]

\* C13: the command compile_chat_history returns is the parsed command of the
\* first command message the newest-first walk met, however many older ones
\* follow; it is None exactly when the walk met no command message.
C13_ClosestCommandReturned ==
    Returned =>
        IF VisitedCommands = {}
        THEN last_command_args = <<>>
        ELSE last_command_args = <<CommandOf(chain[FirstVisitedCommand]).args>>

\* a plain message, then two different commands: the newer command is returned
C13_Witness ==
    /\ Returned
    /\ chain = <<"PlainShort", "CmdPlain", "CmdPin">>
    /\ Len(visited) = 3
    /\ last_command_args = <<CommandOf("CmdPlain").args>>
    /\ CommandOf("CmdPlain").args # CommandOf("CmdPin").args

\* the message is a command that the parser rejects
ParseFails(id) == IsCommand(id) /\ CommandOf(id).raised # ""

RawText(id) == ExtractText(GetContent(Message(id), 0, config).contents)

\* C14: a history message (one older than the triggering message) that starts
\* with the command prefix but does not parse never fails the compilation (the walk goes on past it), and the turn
\* made from it holds its raw text.
C14_ParseFailureTolerated ==
    /\ \A i \in 1..Len(visited) :
          (visited[i] > 1 /\ ParseFails(chain[visited[i]]) /\ i = Len(visited))
              => cpc # "raised"
    /\ \A k \in 1..Len(messages) :
          (messages[k].role # "system" /\ ParseFails(chain[messages[k].msg])) =>
              ExtractText(Tail(messages[k].content)) = RawText(chain[messages[k].msg])

\* the walk ended because a reply target could not be fetched
EndsOnFailedFetch == cpc = "walk" /\ message_index' > Len(visited')

\* C15: the walk yields the starting message first and then each reply target
\* in turn, each message once, in at most as many steps as the chain is long;
\* a reply target that cannot be fetched (NotFound, Forbidden, HTTPException)
\* ends the history without failing the compilation, which returns the system
\* turn and the turns built from the messages yielded so far.
C15_WalkEndsQuietly ==
    /\ [](/\ Len(visited) <= Len(chain)
          /\ \A i \in 1..Len(visited) : visited[i] = i)
    /\ [](FetchFailed => Returned)
    /\ [][EndsOnFailedFetch =>
            /\ cpc' = "done"
            /\ messages' = WithSystemTurn(messages, system_prompt)
            /\ \A k \in 1..Len(messages) : messages[k].msg \in 1..Len(visited)]_vars

\* the second reply target could not be fetched: the context holds the two
\* messages yielded before
C15_Witness ==
    /\ FetchFailed
    /\ Returned
    /\ Len(chain) = 3
    /\ visited = <<1, 2>>
    /\ TurnSources = <<2, 1>>

(***************************************************************************)
(* A ReplyChainIterator driven by hand: __anext__ is called again and      *)
(* again on one instance, also after it raised StopAsyncIteration.  cpc    *)
(* is "ended" once it has raised it.                                       *)
(***************************************************************************)

walkerLocals == <<chain, config, default_system_prompt, token_count,
                  last_command_args, system_prompt, messages, rejected, first_run,
                  loopVars, handlerVars, utilVars>>

\* __anext__ returns a message: the starting one on the first call, later the
\* reply target fetched
AnextYield ==
    /\ cpc \in {"walk", "ended"}
    /\ message_index < MaxCalls
    /\ \/ message_index = 0 /\ it_pos' = it_pos
       \/ message_index > 0 /\ it_pos < Len(chain) /\ it_pos' = it_pos + 1
    /\ message_index' = message_index + 1
    /\ visited' = Append(visited, it_pos')
    /\ UNCHANGED <<cpc, walkerLocals, pipeVars>>

\* __anext__ raises: StopAsyncIteration when the message has no reference or the
\* fetch raised an error the except clause names, else the error of the fetch
AnextStop ==
    /\ cpc \in {"walk", "ended"}
    /\ message_index > 0
    /\ \/ /\ it_pos = Len(chain)
          /\ message_index' = message_index
          /\ cpc' = "ended"
       \/ /\ it_pos < Len(chain)
          /\ message_index < MaxCalls
          /\ message_index' = message_index + 1
          /\ \E e \in FetchErrors : cpc' = IF Caught(e) THEN "ended" ELSE "raised"
    /\ UNCHANGED <<it_pos, visited, walkerLocals, pipeVars>>

InitWalker == InitTwice

NextWalker == AnextYield \/ AnextStop

SpecWalker == InitWalker /\ [][NextWalker]_vars

\* C16: once a ReplyChainIterator has signalled the end of the history, no
\* later __anext__ call on it yields a message.
C16_SinglePass ==
    [][cpc = "ended" => visited' = visited]_vars

(***************************************************************************)
(* LanguageModel.queue_for_generation: the loop that asks the inference    *)
(* service for a completion, runs the tool call the completion holds, and  *)
(* asks again.  A completion is given by what the loop looks at: whether   *)
(* it holds the opening tag, whether it ends with the closing tag, and     *)
(* what lies between the two.                                              *)
(***************************************************************************)

\* what a completion can hold between the tags: a call of Tools' function, a call
\* of a function Tools does not have, a call the function raises on, text that is
\* not JSON, JSON that is not an object
Payloads == {"call", "unknown_function", "function_raises", "not_json", "not_object"}

NoToolCall == [tag |-> FALSE, closed |-> FALSE, payload |-> "text"]

Completions ==
    {NoToolCall} \cup [tag : {TRUE}, closed : BOOLEAN, payload : Payloads]

\* the statuses the inference service answers with
Statuses == {200, 500}

\* while needs_call and generation_count < 5
LoopContinues(nc, gc) == nc /\ gc < 5

\* config.use_tools and "<tool_call>" in last_completion
ToolCallDetected(c) == config.use_tools /\ c.tag

\* if not last_completion.endswith("</tool_call>"): last_completion += "</tool_call>"
CloseTag(c) == [c EXCEPT !.closed = TRUE]

\* TOOL_CALL_PATTERN.findall: the texts between an opening and the next closing tag
Findall(c) == IF c.tag /\ c.closed THEN <<c.payload>> ELSE <<>>

\* json.loads: <<>> when it raises, else the value
JsonLoads(p) ==
    CASE p = "not_json" -> <<>>
      [] p = "not_object" -> <<[type |-> "list", name |-> ""]>>
      [] p = "unknown_function" -> <<[type |-> "dict", name |-> "lookup"]>>
      [] OTHER -> <<[type |-> "dict", name |-> "google_search_and_scrape"]>>

\* getattr(Tools, function_name, None)
ToolsFunctions == {"google_search_and_scrape"}

\* the try block of the loop: json.loads, the two subscripts, and
\* execute_function_call; TRUE when all of it went through
TryCall(p) ==
    /\ JsonLoads(p) # <<>>
    /\ JsonLoads(p)[1].type = "dict"
    /\ JsonLoads(p)[1].name \in ToolsFunctions
    /\ p # "function_raises"

\* tool_call after the try block: the assignment happens when json.loads returned
BoundAfter(tc, p) == IF JsonLoads(p) # <<>> THEN JsonLoads(p) ELSE tc

\* the except block evaluates tool_call.get('name'): it needs tool_call bound,
\* and bound to a dict
HandlerRuns(tc) == tc # <<>> /\ tc[1].type = "dict"

ToolTurn(kind, name) == [role |-> "tool", content |-> [kind |-> kind, name |-> name]]

AssistantTurn(c) == [role |-> "assistant", content |-> c]

\* the tool turn the loop appends for the match m; <<>> when the except block
\* itself raises
ToolResponse(tc, matches) ==
    IF matches = <<>>
    THEN <<ToolTurn("parse_error_retry", "")>>
    ELSE IF TryCall(matches[1])
         THEN <<ToolTurn("tool_response", JsonLoads(matches[1])[1].name)>>
         ELSE IF HandlerRuns(BoundAfter(tc, matches[1]))
              THEN <<ToolTurn("execute_error_retry", BoundAfter(tc, matches[1])[1].name)>>
              ELSE <<>>

\* one pass through the body of the while loop, and the return that follows when
\* the loop condition fails
Generate ==
    /\ lpc = "loop"
    /\ \E status \in Statuses, c \in Completions :
        IF status # 200
        THEN /\ lpc' = "raised"
             /\ received' = Append(received, <<>>)
             /\ UNCHANGED <<generation_count, needs_call, last_completion,
                            chat_history, tool_call>>
        ELSE /\ received' = Append(received, <<c>>)
             /\ generation_count' = generation_count + 1
             /\ IF ToolCallDetected(c)
                THEN LET lc == CloseTag(c)
                         matches == Findall(lc)
                         turn == ToolResponse(tool_call, matches)
                     IN /\ last_completion' = <<lc>>
                        /\ needs_call' = TRUE
                        /\ tool_call' = IF matches = <<>> THEN tool_call
                                        ELSE BoundAfter(tool_call, matches[1])
                        /\ chat_history' = Append(chat_history, AssistantTurn(lc)) \o turn
                        /\ lpc' = IF turn = <<>> THEN "raised"
                                  ELSE IF LoopContinues(TRUE, generation_count + 1)
                                       THEN "loop" ELSE "returned"
                ELSE /\ last_completion' = <<c>>
                     /\ needs_call' = FALSE
                     /\ lpc' = IF LoopContinues(FALSE, generation_count + 1)
                               THEN "loop" ELSE "returned"
                     /\ UNCHANGED <<chat_history, tool_call>>
    /\ UNCHANGED <<chain, config, default_system_prompt, message_index, it_pos,
                   token_count, last_command_args, system_prompt, messages, cpc,
                   visited, rejected, first_run>>
    /\ UNCHANGED <<pipeVars, handlerVars, utilVars>>

InitToolLoop ==
    /\ chain = <<"PlainShort">>
    /\ config \in {c \in Configs : c.context_length = 40}
    /\ default_system_prompt \in DefaultPrompts
    /\ message_index = 0
    /\ it_pos = 1
    /\ token_count = 0
    /\ last_command_args = <<>>
    /\ system_prompt = <<>>
    /\ messages = <<>>
    /\ cpc = "idle"
    /\ visited = <<>>
    /\ rejected = 0
    /\ first_run = <<>>
    /\ PipeIdle
    /\ HandlersIdle
    /\ UtilIdle
    /\ lpc = "loop"
    /\ generation_count = 0
    /\ needs_call = TRUE
    /\ last_completion = <<>>
    /\ chat_history = <<>>
    /\ tool_call = <<>>
    /\ received = <<>>

NextToolLoop == Generate

SpecToolLoop == InitToolLoop /\ [][NextToolLoop]_vars

\* the completion the last request brought (<<>>: the request failed)
LastReceived == received[Len(received)]

\* the completion as the loop holds it once it saw the tool call
Held(c) == IF ToolCallDetected(c) THEN CloseTag(c) ELSE c

\* the requests before the last all brought a completion with a tool call
EarlierAllToolCalls ==
    \A k \in 1..(Len(received) - 1) :
        received[k] # <<>> /\ ToolCallDetected(received[k][1])

\* C17: a run of the loop makes between one and 5 requests, goes on only after a
\* completion with a tool call, returns the first completion without one, and
\* returns the 5th completion when that one still holds a tool call.
C17_BoundedRoundTrips ==
    /\ Len(received) <= 5
    /\ lpc \in {"returned", "raised"} => Len(received) >= 1
    /\ lpc = "loop" /\ Len(received) > 0 =>
            /\ EarlierAllToolCalls
            /\ LastReceived # <<>> /\ ToolCallDetected(LastReceived[1])
    /\ lpc = "returned" =>
            /\ EarlierAllToolCalls
            /\ LastReceived # <<>>
            /\ last_completion = <<Held(LastReceived[1])>>
            /\ ~ToolCallDetected(LastReceived[1]) \/ Len(received) = 5
    /\ (Len(received) = 5 /\ LastReceived # <<>> /\ ToolCallDetected(LastReceived[1]))
            => lpc = "returned"

\* the step took a completion with a tool call that could not be carried out
FailedToolCallStep ==
    /\ lpc = "loop"
    /\ Len(received') = Len(received) + 1
    /\ received'[Len(received')] # <<>>
    /\ ToolCallDetected(received'[Len(received')][1])
    /\ ~TryCall(received'[Len(received')][1].payload)

\* the last turn of the history asks the model to call the function again
RetryTurnAppended(h) ==
    /\ Len(h) > 0
    /\ h[Len(h)].role = "tool"
    /\ h[Len(h)].content.kind \in {"parse_error_retry", "execute_error_retry"}

\* C18: a tool call that does not parse, names an unknown function or makes the
\* function raise does not fail the run, in any round: the loop appends a tool
\* turn asking for a retry and goes on to its loop condition.
C18_ToolFailureFoldedBack ==
    [][FailedToolCallStep =>
            /\ lpc' # "raised"
            /\ Len(chat_history') = Len(chat_history) + 2
            /\ RetryTurnAppended(chat_history')]_vars

\* the step took a completion whose tool-call payload json.loads rejects
ParseFailureStep ==
    /\ FailedToolCallStep
    /\ JsonLoads(received'[Len(received')][1].payload) = <<>>

\* C19: when the payload of a tool call does not parse, a tool turn asking for
\* a retry is appended, the request is counted, and the loop asks for another
\* completion as long as the count is below the ceiling.
C19_ParseFailureRetried ==
    [][ParseFailureStep =>
            /\ RetryTurnAppended(chat_history')
            /\ generation_count' = generation_count + 1
            /\ generation_count' < 5 => lpc' = "loop"]_vars

(***************************************************************************)
(* on_message of the two clients: SyntheaClient (src/synthea) and the      *)
(* older LLMClient (src/chatbot.py).  A handler runs from one await to the *)
(* next, so handlers of different messages interleave.                     *)
(***************************************************************************)

MaxMessages == 2

COMMAND_START_STR == "!syn "

\* the reactions the handlers use
HOURGLASS == "hourglass"
CHECK_MARK == "check_mark"
CROSS_MARK == "cross_mark"

Clients == {"SyntheaClient", "LLMClient"}

\* the messages that come in
Incoming == {"PlainShort", "CmdPlain", "CmdPin", "CmdHelp", "CmdUnknown", "BotPlain"}

\* a message as on_message sees it: its content (id), whether it replies to a
\* message of the bot, whether a webhook sent it, whether the message it replies
\* to carries the embed of a character, and whether it was posted in a thread
\* that a command started.  A webhook sends a plain message or a command, a
\* plain message replies to a character, a plain message is posted in a thread.
Arrivals ==
    {a \in [id : Incoming, replies_to_bot : BOOLEAN, webhook_id : BOOLEAN,
            replied_character : BOOLEAN, command_thread : BOOLEAN] :
        \/ ~a.webhook_id /\ ~a.replied_character /\ ~a.command_thread
        \/ /\ a.webhook_id /\ ~a.replied_character /\ ~a.command_thread
           /\ a.id \in {"PlainShort", "CmdPlain"} /\ ~a.replies_to_bot
        \/ /\ a.replied_character /\ ~a.webhook_id /\ ~a.command_thread
           /\ a.id = "PlainShort"
        \/ /\ a.command_thread /\ ~a.webhook_id /\ ~a.replied_character
           /\ a.id = "PlainShort" /\ ~a.replies_to_bot}

\* the older ChatbotParser (src/CommandParser.py): argparse reads options and the
\* prompt words in any order; help exits at once, an unknown option is reported
\* at the end, and the prompt needs a word
RECURSIVE OldParseArgs(_, _, _)
OldParseArgs(ws, got, unknown) ==
    IF ws = <<>>
    THEN IF unknown \/ ~got THEN "CommandError" ELSE ""
    ELSE LET w == Head(ws) IN
         IF w \in HelpFlags THEN "ParserExitedException"
         ELSE IF w \in CharFlags THEN
              IF Len(ws) >= 2 /\ ws[2] \notin OptionLike
              THEN OldParseArgs(SubSeq(ws, 3, Len(ws)), got, unknown)
              ELSE "ArgumentError"
         ELSE IF w \in OptionLike THEN OldParseArgs(Tail(ws), got, TRUE)
         ELSE OldParseArgs(Tail(ws), TRUE, unknown)

OldParse(command) ==
    LET stripped == IF command # <<>> /\ Head(command) = COMMAND_START_STR
                    THEN Tail(command) ELSE command
    IN  OldParseArgs(Split(stripped), FALSE, FALSE)

\* the message a thread made by a command starts with
ThreadStarter == "CmdPlain"

\* what parsing the command raises in the handler of client cl ("": nothing); in
\* a thread made by a command LLMClient parses the message the thread starts with
ParseRaises(cl, m) ==
    IF cl = "SyntheaClient"
    THEN Parse(Message(m.id).clean_content, [command_start_str |-> COMMAND_START_STR]).raised
    ELSE IF m.command_thread THEN OldParse(Message(ThreadStarter).clean_content)
    ELSE OldParse(Message(m.id).clean_content)

\* message.content.startswith(COMMAND_START_STR)
StartsWithCommand(m) ==
    /\ Message(m.id).clean_content # <<>>
    /\ Head(Message(m.id).clean_content) = COMMAND_START_STR

\* _get_character_replied_to(message) returns a character: SyntheaClient wants
\* the replied message to be the bot's own and to carry an embed, LLMClient only
\* an embed titled with a character mapped for the guild
CharacterRepliedTo(cl, m) ==
    IF cl = "SyntheaClient" THEN m.replied_character /\ m.replies_to_bot
    ELSE m.replied_character

\* message_in_chatbot_thread: only LLMClient looks at threads
InChatbotThread(cl, m) == cl = "LLMClient" /\ m.command_thread

\* a handler that answers whatever it is sent, its own messages aside
InvokesChatbot_Everything(m) ==
    /\ Message(m.id).author # BotUserId
    /\ ~m.webhook_id

\* the two early returns, then message_invokes_chatbot (or, in LLMClient,
\* message_in_chatbot_thread)
InvokesChatbot(m) ==
    /\ Message(m.id).author # BotUserId
    /\ ~m.webhook_id
    /\ \/ StartsWithCommand(m)
       \/ m.replies_to_bot
       \/ CharacterRepliedTo(client, m)
       \/ InChatbotThread(client, m)

SetAt(f, k, v) == [f EXCEPT ![k] = v]

\* the event loop calls on_message for a new message
Deliver ==
    /\ Len(inbox) < MaxMessages
    /\ \E a \in Arrivals : inbox' = Append(inbox, a)
    /\ hpc' = Append(hpc, "start")
    /\ reactions' = Append(reactions, {})
    /\ replies' = Append(replies, <<>>)
    /\ handling_failed' = Append(handling_failed, FALSE)
    /\ UNCHANGED client

\* on_message up to add_reaction of the hourglass
OnMessage(k) ==
    /\ hpc[k] = "start"
    /\ IF InvokesChatbot(inbox[k])
       THEN /\ reactions' = SetAt(reactions, k, reactions[k] \cup {HOURGLASS})
            /\ hpc' = SetAt(hpc, k, "respond")
       ELSE /\ hpc' = SetAt(hpc, k, "done")
            /\ UNCHANGED reactions
    /\ UNCHANGED <<client, inbox, replies, handling_failed>>

\* the except block: the cross mark and the reply with the error
ExceptBlock(k) ==
    /\ reactions' = SetAt(reactions, k, reactions[k] \cup {CROSS_MARK})
    /\ replies' = SetAt(replies, k, Append(replies[k], "error"))
    /\ handling_failed' = SetAt(handling_failed, k, TRUE)

\* the rest of the try block, and the except block when it raised
Respond(k) ==
    /\ hpc[k] = "respond"
    /\ LET raised == ParseRaises(client, inbox[k]) IN
         \/ /\ raised = ""
            /\ \E responded \in BOOLEAN :
                  IF responded
                  THEN /\ replies' = SetAt(replies, k, Append(replies[k], "response"))
                       /\ reactions' = SetAt(reactions, k, reactions[k] \cup {CHECK_MARK})
                       /\ UNCHANGED handling_failed
                  ELSE ExceptBlock(k)
         \/ /\ raised = "ParserExitedException"
            /\ client = "LLMClient"
            /\ replies' = SetAt(replies, k, Append(replies[k], "help"))
            /\ UNCHANGED <<reactions, handling_failed>>
         \/ /\ raised # ""
            /\ ~(raised = "ParserExitedException" /\ client = "LLMClient")
            /\ ExceptBlock(k)
    /\ hpc' = SetAt(hpc, k, "finally")
    /\ UNCHANGED <<client, inbox>>

\* the finally block
Finally(k) ==
    /\ hpc[k] = "finally"
    /\ reactions' = SetAt(reactions, k, reactions[k] \ {HOURGLASS})
    /\ hpc' = SetAt(hpc, k, "done")
    /\ UNCHANGED <<client, inbox, replies, handling_failed>>

handlerRest == <<chain, config, default_system_prompt, message_index, it_pos,
                 token_count, last_command_args, system_prompt, messages, cpc,
                 visited, rejected, first_run, loopVars, pipeVars, utilVars>>

Handle ==
    /\ \E k \in 1..Len(inbox) : OnMessage(k) \/ Respond(k) \/ Finally(k)
    /\ UNCHANGED handlerRest

Arrive == Deliver /\ UNCHANGED handlerRest

InitHandlers ==
    /\ chain = <<"PlainShort">>
    /\ config \in {c \in Configs : c.context_length = 40 /\ ~c.use_tools}
    /\ default_system_prompt \in DefaultPrompts
    /\ message_index = 0
    /\ it_pos = 1
    /\ token_count = 0
    /\ last_command_args = <<>>
    /\ system_prompt = <<>>
    /\ messages = <<>>
    /\ cpc = "idle"
    /\ visited = <<>>
    /\ rejected = 0
    /\ first_run = <<>>
    /\ LoopIdle
    /\ PipeIdle
    /\ UtilIdle
    /\ client \in Clients
    /\ inbox = <<>>
    /\ hpc = <<>>
    /\ reactions = <<>>
    /\ replies = <<>>
    /\ handling_failed = <<>>

NextHandlers == Arrive \/ Handle

SpecHandlers == InitHandlers /\ [][NextHandlers]_vars

ErrorReplies(k) == Len(SelectSeq(replies[k], LAMBDA r : r = "error"))

\* C20: once on_message has finished for a message that invokes the bot, the
\* hourglass is off the message, the message carries exactly one of the check
\* mark and the cross mark, and when the handling failed exactly one reply
\* with the error was posted.
C20_OneFinalIndicator ==
    \A k \in 1..Len(inbox) :
        (hpc[k] = "done" /\ InvokesChatbot(inbox[k])) =>
            /\ HOURGLASS \notin reactions[k]
            /\ (CHECK_MARK \in reactions[k]) # (CROSS_MARK \in reactions[k])
            /\ handling_failed[k] => ErrorReplies(k) = 1

(***************************************************************************)
(* SyntheaUtilities.split_text.  A text is here a sequence of characters,  *)
(* so that slicing, rfind and strip work on positions as they do in the    *)
(* code.                                                                    *)
(***************************************************************************)

MaxTextLen == 5

\* the characters of the texts: two letters, the period, the space, the newline
Characters == {"a", "b", ".", " ", "\n"}

\* the characters str.strip() removes
Blank == {" ", "\n"}

\* text.split('\n')
RECURSIVE SplitLines(_, _)
SplitLines(t, cur) ==
    IF t = <<>> THEN <<cur>>
    ELSE IF Head(t) = "\n" THEN <<cur>> \o SplitLines(Tail(t), <<>>)
    ELSE SplitLines(Tail(t), Append(cur, Head(t)))

\* the position a slice index stands for in a sequence of n items: a negative
\* index counts from the end, and an index beyond either end is cut to it
SliceIndex(i, n) ==
    IF i < 0 THEN (IF i + n < 0 THEN 0 ELSE i + n) ELSE Min(i, n)

\* s.rfind(ch, 0, end): the index (from 0) of the last ch before index end, -1
\* when there is none
RFind(s, ch, end) ==
    LET hits == {i \in 0..(SliceIndex(end, Len(s)) - 1) : s[i + 1] = ch}
    IN  IF hits = {} THEN -1 ELSE CHOOSE i \in hits : \A j \in hits : j <= i

\* s[a:b] with indices from 0
Slice(s, a, b) == SubSeq(s, SliceIndex(a, Len(s)) + 1, SliceIndex(b, Len(s)))

RECURSIVE LStrip(_)
LStrip(s) == IF s # <<>> /\ Head(s) \in Blank THEN LStrip(Tail(s)) ELSE s

RECURSIVE RStrip(_)
RStrip(s) ==
    IF s # <<>> /\ s[Len(s)] \in Blank THEN RStrip(SubSeq(s, 1, Len(s) - 1)) ELSE s

\* s.strip()
Strip(s) == RStrip(LStrip(s))

\* the split point of the while loop: the last period, else the last space,
\* else max_length
SplitPoint(paragraph, ml) ==
    IF RFind(paragraph, ".", ml) # -1 THEN RFind(paragraph, ".", ml)
    ELSE IF RFind(paragraph, " ", ml) # -1 THEN RFind(paragraph, " ", ml)
    ELSE ml

\* paragraph[split_point + 1:].strip()
Remainder_SkipOne(paragraph, split_point) ==
    Strip(Slice(paragraph, split_point + 2, Len(paragraph)))

Remainder(paragraph, split_point) ==
    Strip(Slice(paragraph, split_point + 1, Len(paragraph)))

\* the while loop over a paragraph longer than max_length: the pieces it
\* appends and what is left of the paragraph
RECURSIVE SplitFurther(_, _)
SplitFurther(paragraph, ml) ==
    IF Len(paragraph) > ml
    THEN LET split_point == SplitPoint(paragraph, ml)
             rest == SplitFurther(Remainder(paragraph, split_point), ml)
         IN  [pieces |-> <<Strip(Slice(paragraph, 0, split_point + 1))>> \o rest.pieces,
              paragraph |-> rest.paragraph]
    ELSE [pieces |-> <<>>, paragraph |-> paragraph]

\* the while loop never ends on this paragraph: it comes to a pass that leaves
\* the paragraph, still longer than max_length, as it was
RECURSIVE LoopHangs(_, _)
LoopHangs(paragraph, ml) ==
    /\ Len(paragraph) > ml
    /\ LET rest == Remainder(paragraph, SplitPoint(paragraph, ml))
       IN  rest = paragraph \/ LoopHangs(rest, ml)

\* split_text(t, ml) never returns: a paragraph longer than max_length always
\* enters the while loop
Hangs(t, ml) ==
    \E i \in 1..Len(SplitLines(t, <<>>)) : LoopHangs(SplitLines(t, <<>>)[i], ml)

\* the for loop over the paragraphs, and the append after it
RECURSIVE SplitParagraphs(_, _, _, _)
SplitParagraphs(paragraphs, ps, current_piece, ml) ==
    IF paragraphs = <<>>
    THEN IF current_piece # <<>> THEN Append(ps, current_piece) ELSE ps
    ELSE LET paragraph == Head(paragraphs) IN
         IF Len(current_piece) + Len(paragraph) > ml
         THEN LET flushed == IF current_piece # <<>> THEN Append(ps, current_piece) ELSE ps
                  further == SplitFurther(paragraph, ml)
              IN  SplitParagraphs(Tail(paragraphs), flushed \o further.pieces,
                                  further.paragraph, ml)
         ELSE SplitParagraphs(Tail(paragraphs), ps,
                              IF current_piece # <<>>
                              THEN current_piece \o <<"\n">> \o paragraph
                              ELSE paragraph, ml)

split_text(t, ml) == SplitParagraphs(SplitLines(t, <<>>), <<>>, <<>>, ml)

\* the texts and limits split_text is called with
Texts == UNION {[1..n -> Characters] : n \in 0..MaxTextLen}

MaxLengths == {1, 2, 3}

SplitText ==
    /\ pieces = <<>>
    /\ ~Hangs(input_text, max_length)
    /\ pieces' = <<split_text(input_text, max_length)>>
    /\ UNCHANGED <<input_text, max_length, attachVars, captionVars, dbVars, sendVars>>
    /\ UNCHANGED <<chain, config, default_system_prompt, message_index, it_pos,
                   token_count, last_command_args, system_prompt, messages, cpc,
                   visited, rejected, first_run, loopVars, handlerVars, pipeVars>>

\* the program with nothing under way but the helper a specification is about
Quiet ==
    /\ chain = <<"PlainShort">>
    /\ config \in {c \in Configs : c.context_length = 40 /\ ~c.use_tools}
    /\ default_system_prompt \in DefaultPrompts
    /\ message_index = 0
    /\ it_pos = 1
    /\ token_count = 0
    /\ last_command_args = <<>>
    /\ system_prompt = <<>>
    /\ messages = <<>>
    /\ cpc = "idle"
    /\ visited = <<>>
    /\ rejected = 0
    /\ first_run = <<>>
    /\ LoopIdle
    /\ HandlersIdle
    /\ PipeIdle

InitSplit ==
    /\ Quiet
    /\ SendIdle
    /\ AttachIdle
    /\ CaptionIdle
    /\ DbIdle
    /\ input_text \in Texts
    /\ max_length \in MaxLengths
    /\ pieces = <<>>

NextSplit == SplitText

\* limits that leave no room for a character
NoRoomLengths == {-2, -1, 0}

InitSplitNoRoom ==
    /\ Quiet
    /\ SendIdle
    /\ AttachIdle
    /\ CaptionIdle
    /\ DbIdle
    /\ input_text \in Texts
    /\ max_length \in NoRoomLengths
    /\ pieces = <<>>

SpecSplitNoRoom == InitSplitNoRoom /\ [][NextSplit]_vars

SpecSplit == InitSplit /\ [][NextSplit]_vars

RECURSIVE Concatenation(_)
Concatenation(ps) == IF ps = <<>> THEN <<>> ELSE Head(ps) \o Concatenation(Tail(ps))

\* ceil(a / b)
CeilDiv(a, b) == (a + b - 1) \div b

NonBlank(s) == SelectSeq(s, LAMBDA c : c \notin Blank)

\* C21 as stated: split_text returns ceil(L/C) pieces whose concatenation is
\* the text.
C21_RoundTrip ==
    pieces # <<>> =>
        /\ Len(pieces[1]) = CeilDiv(Len(input_text), max_length)
        /\ Concatenation(pieces[1]) = input_text

\* C21: the pieces split_text returns hold, in order, every character of the
\* text that is not a space or a newline, and nothing else but spaces and
\* newlines.
C21_CharactersKept ==
    pieces # <<>> => NonBlank(Concatenation(pieces[1])) = NonBlank(input_text)

\* a text with a newline and a word longer than the limit was split in three
C21_Witness ==
    /\ pieces # <<>>
    /\ input_text = <<"a", "\n", "b", "a", "b">>
    /\ max_length = 1
    /\ Len(pieces[1]) >= 3

\* C22: every piece split_text returns has at most max_length characters.
C22_PiecesWithinLimit ==
    pieces # <<>> => \A k \in 1..Len(pieces[1]) : Len(pieces[1][k]) <= max_length

(***************************************************************************)
(* ContextManager._read_attachment step by step, with the working          *)
(* directory the PDF branch saves into.  Every call that can raise either  *)
(* goes through or raises.                                                 *)
(***************************************************************************)

MaxPages == 3

PageTexts == {<<"one">>, <<"two">>}

PdfFile(pages) == [content_type |-> "application/pdf", data |-> <<>>, pages |-> pages,
                   filename |-> "d.pdf", url |-> "http://d"]

Attachments ==
    {TextFile, ImageFile} \cup {PdfFile(ps) : ps \in UNION {[1..n -> PageTexts] : n \in 0..MaxPages}}

attachRest == <<chain, config, default_system_prompt, message_index, it_pos,
                token_count, last_command_args, system_prompt, messages, cpc,
                visited, rejected, first_run, loopVars, handlerVars, pipeVars, splitVars,
                captionVars, dbVars, sendVars>>

\* the exception leaves _read_attachment: nothing after the raising line runs
AttachmentRaise ==
    /\ apc' = "raised"
    /\ UNCHANGED <<attachment, attachment_string, pages_left>>

\* await attachment.read(), and the branches that need no file
AttachmentRead ==
    /\ apc = "read"
    /\ \/ AttachmentRaise /\ UNCHANGED local_files
       \/ /\ attachment.content_type \in PdfTypes
          /\ apc' = "save"
          /\ UNCHANGED <<attachment, attachment_string, pages_left, local_files>>
       \/ /\ attachment.content_type \notin PdfTypes
          /\ apc' = "returned"
          /\ attachment_string' =
                IF ReadAttachment(attachment, config) = <<>> THEN <<>>
                ELSE ReadAttachment(attachment, config)[1].string
          /\ UNCHANGED <<attachment, pages_left, local_files>>
    /\ UNCHANGED attachRest

\* await attachment.save(attachment.filename): it writes the file, or raises
\* before or while writing
AttachmentSave ==
    /\ apc = "save"
    /\ \/ /\ apc' = "open"
          /\ local_files' = local_files \cup {attachment.filename}
          /\ UNCHANGED <<attachment, attachment_string, pages_left>>
       \/ /\ AttachmentRaise
          /\ \E written \in BOOLEAN :
                local_files' = IF written THEN local_files \cup {attachment.filename}
                               ELSE local_files
    /\ UNCHANGED attachRest

\* pypdf.PdfReader(attachment.filename)
AttachmentOpen ==
    /\ apc = "open"
    /\ \/ /\ apc' = "extract"
          /\ pages_left' = attachment.pages
          /\ UNCHANGED <<attachment, attachment_string>>
       \/ AttachmentRaise
    /\ UNCHANGED local_files
    /\ UNCHANGED attachRest

\* one pass of the loop over reader.pages
AttachmentExtract ==
    /\ apc = "extract"
    /\ pages_left # <<>>
    /\ \/ /\ attachment_string' = attachment_string \o <<"\n">> \o Head(pages_left)
          /\ pages_left' = Tail(pages_left)
          /\ UNCHANGED <<attachment, apc>>
       \/ AttachmentRaise
    /\ UNCHANGED local_files
    /\ UNCHANGED attachRest

\* what os.remove leaves of the directory
Removed(files, name) == files \ {name}

\* os.remove(attachment.filename) and the return
AttachmentRemove ==
    /\ apc = "extract"
    /\ pages_left = <<>>
    /\ local_files' = Removed(local_files, attachment.filename)
    /\ apc' = "returned"
    /\ UNCHANGED <<attachment, attachment_string, pages_left>>
    /\ UNCHANGED attachRest

InitAttach ==
    /\ Quiet
    /\ SendIdle
    /\ SplitIdle
    /\ CaptionIdle
    /\ DbIdle
    /\ attachment \in Attachments
    /\ apc = "read"
    /\ attachment_string = <<>>
    /\ pages_left = <<>>
    /\ local_files = WorkingDirectory

NextAttach ==
    AttachmentRead \/ AttachmentSave \/ AttachmentOpen \/ AttachmentExtract \/ AttachmentRemove

SpecAttach == InitAttach /\ [][NextAttach]_vars

\* C23: when _read_attachment has returned or raised, the file it saved the
\* PDF attachment to is gone: the working directory is what it was.
C23_NoTemporaryCopyLeft ==
    apc \in {"returned", "raised"} => local_files = WorkingDirectory

(***************************************************************************)
(* VisionModel.get_caption_for_image.  A call runs to its await of the     *)
(* captioning service and, once the service answered, to its return; other *)
(* calls run in between.  The images table has url as its primary key.     *)
(***************************************************************************)

MaxCaptionCalls == 3

\* the captions the service answers with
Captions == {"a cat", "a dog"}

\* a function as a table: the row for key k added
WithRow(table, k, v) == [x \in DOMAIN table \cup {k} |-> IF x = k THEN v ELSE table[x]]

\* ImageDatabase.get_image_description: <<>> is None
GetImageDescription(url) ==
    IF url \in DOMAIN image_database THEN <<image_database[url]>> ELSE <<>>

captionRest == <<chain, config, default_system_prompt, message_index, it_pos,
                 token_count, last_command_args, system_prompt, messages, cpc,
                 visited, rejected, first_run, loopVars, handlerVars, pipeVars,
                 splitVars, attachVars, dbVars, sendVars>>

\* get_caption_for_image up to its await: the cached description is returned,
\* or the request is sent to the service
CaptionStart ==
    /\ Len(caption_calls) < MaxCaptionCalls
    /\ \E image_url \in ImageUrls :
        LET description == GetImageDescription(image_url) IN
        IF description # <<>>
        THEN /\ caption_calls' = Append(caption_calls,
                    [image_url |-> image_url, pc |-> "returned", description |-> description])
             /\ UNCHANGED service_requests
        ELSE /\ caption_calls' = Append(caption_calls,
                    [image_url |-> image_url, pc |-> "await", description |-> <<>>])
             /\ service_requests' =
                    [service_requests EXCEPT ![image_url] = service_requests[image_url] + 1]
    /\ UNCHANGED image_database
    /\ UNCHANGED captionRest

\* the service answered call k: add_image_description inserts the row, which
\* raises IntegrityError when the url is stored already, and the call returns
CaptionFinish ==
    /\ \E k \in 1..Len(caption_calls), description \in Captions :
        /\ caption_calls[k].pc = "await"
        /\ IF caption_calls[k].image_url \in DOMAIN image_database
           THEN /\ caption_calls' = [caption_calls EXCEPT ![k].pc = "raised"]
                /\ UNCHANGED image_database
           ELSE /\ image_database' =
                        WithRow(image_database, caption_calls[k].image_url, description)
                /\ caption_calls' = [caption_calls EXCEPT ![k].pc = "returned",
                                                          ![k].description = <<description>>]
    /\ UNCHANGED service_requests
    /\ UNCHANGED captionRest

InitCaption ==
    /\ Quiet
    /\ SendIdle
    /\ SplitIdle
    /\ AttachIdle
    /\ DbIdle
    /\ CaptionIdle

NextCaption == CaptionStart \/ CaptionFinish

SpecCaption == InitCaption /\ [][NextCaption]_vars

\* C24: however calls of get_caption_for_image interleave, none raises, the
\* captioning service is asked at most once for each image url, and a stored
\* description is never replaced or removed.
C24_CaptionedOnce ==
    /\ [](\A k \in 1..Len(caption_calls) : caption_calls[k].pc # "raised")
    /\ [](\A u \in ImageUrls : service_requests[u] <= 1)
    /\ [][\A u \in DOMAIN image_database :
            u \in DOMAIN image_database' /\ image_database'[u] = image_database[u]]_vars

(***************************************************************************)
(* CharactersDatabase: the three tables and the calls on them, and the     *)
(* access check of SyntheaClient.respond_to_user.  A call is a function of *)
(* the tables: it gives what it raised ("" for nothing), the value it      *)
(* returned and the tables it leaves.                                      *)
(***************************************************************************)

\* the ids the calls are made with, the users and the servers; server 0 stands
\* for None (a direct message)
CharIdArgs == {"Bob", "eve"}
\* create_character is also called with an id that is not one word
NewIdArgs == CharIdArgs \cup {"my char"}
UserIds == {1, 2}
ServerIds == {10, 11}
\* the servers the owners run add_character and remove_character in
OwnerServers == {10}
NoServer == 0

\* str.lower()
Lower(char_id) == IF char_id = "Bob" THEN "bob" ELSE char_id

\* re.match(char_id_PATTERN, char_id)
MatchesPattern(char_id) == char_id \in {"bob", "Bob", "eve"}

\* a list of editable columns that names the owner too
EDITABLE_COLUMNS_WithOwner ==
    {"description", "display_name", "avatar_link", "system_prompt", "owner"}

EDITABLE_COLUMNS == {"description", "display_name", "avatar_link", "system_prompt"}

Db == [characters |-> characters, servers |-> servers,
       server_characters |-> server_characters]

Outcome(raised, value, db) == [raised |-> raised, value |-> value, db |-> db]

\* load_character: <<>> is None
LoadCharacter(db, char_id) ==
    IF Lower(char_id) \in DOMAIN db.characters
    THEN <<[id |-> Lower(char_id), owner |-> db.characters[Lower(char_id)].owner]>>
    ELSE <<>>

IsCharacterOwner_Anyone(db, char_id, user_id) ==
    IF Lower(char_id) \notin DOMAIN db.characters
    THEN Outcome("CharacterNotFoundError", FALSE, db)
    ELSE Outcome("", TRUE, db)

IsCharacterOwner(db, char_id, user_id) ==
    IF Lower(char_id) \notin DOMAIN db.characters
    THEN Outcome("CharacterNotFoundError", FALSE, db)
    ELSE Outcome("", db.characters[Lower(char_id)].owner = user_id, db)

\* the rows of characters JOIN server_characters the query of
\* can_access_character counts
JoinedRows_AnyServer(db, char_id, user_id, server_id) ==
    {sc \in db.server_characters :
        /\ sc[2] = char_id
        /\ char_id \in DOMAIN db.characters}

JoinedRows(db, char_id, user_id, server_id) ==
    {sc \in db.server_characters :
        /\ sc[2] = char_id
        /\ char_id \in DOMAIN db.characters
        /\ (sc[1] = server_id \/ db.characters[char_id].owner = user_id)}

CanAccessCharacter(db, char_id, user_id, server_id) ==
    IF user_id = 0 /\ server_id = 0
    THEN Outcome("ValueError", FALSE, db)
    ELSE IF server_id # 0 /\ JoinedRows(db, Lower(char_id), user_id, server_id) # {}
    THEN Outcome("", TRUE, db)
    ELSE IsCharacterOwner(db, Lower(char_id), user_id)

NewCharacter(user_id) == [owner |-> user_id, description |-> <<>>]

CreateCharacter_Overwrite(db, char_id, user_id) ==
    IF ~MatchesPattern(Lower(char_id))
    THEN Outcome("InvalidCharacterIDError", <<>>, db)
    ELSE Outcome("", <<>>, [db EXCEPT !.characters =
                                WithRow(db.characters, Lower(char_id), NewCharacter(user_id))])

CreateCharacter(db, char_id, user_id) ==
    IF LoadCharacter(db, Lower(char_id)) # <<>>
    THEN Outcome("DuplicateCharacterError", <<>>, db)
    ELSE IF ~MatchesPattern(Lower(char_id))
    THEN Outcome("InvalidCharacterIDError", <<>>, db)
    ELSE Outcome("", <<>>, [db EXCEPT !.characters =
                                WithRow(db.characters, Lower(char_id), NewCharacter(user_id))])

\* DELETE FROM characters WHERE id = ?, with ON DELETE CASCADE on
\* server_characters.char_id
DeleteRow_NoCascade(db, id) ==
    [db EXCEPT !.characters = [x \in DOMAIN db.characters \ {id} |-> db.characters[x]]]

DeleteRow(db, id) ==
    [db EXCEPT !.characters = [x \in DOMAIN db.characters \ {id} |-> db.characters[x]],
               !.server_characters = {sc \in db.server_characters : sc[2] # id}]

\* the check the four owner-only calls start with
OwnerCheck(db, char_id, user_id) ==
    IF LoadCharacter(db, Lower(char_id)) = <<>> THEN "CharacterNotFoundError"
    ELSE IF LoadCharacter(db, Lower(char_id))[1].owner # user_id THEN "ForbiddenCharacterError"
    ELSE ""

DeleteCharacter(db, char_id, user_id) ==
    IF OwnerCheck(db, char_id, user_id) # ""
    THEN Outcome(OwnerCheck(db, char_id, user_id), <<>>, db)
    ELSE Outcome("", <<>>, DeleteRow(db, Lower(char_id)))

\* UPDATE characters SET {column_name} = ?: owner is an INTEGER column, the
\* others are TEXT columns that may be NULL (<<>>)
SetColumn(row, column_name, new_value) ==
    [f \in DOMAIN row |->
        IF f # column_name THEN row[f]
        ELSE IF f = "owner" THEN new_value ELSE <<new_value>>]

UpdateCharacter(db, char_id, user_id, column_name, new_value) ==
    IF OwnerCheck(db, char_id, user_id) # ""
    THEN Outcome(OwnerCheck(db, char_id, user_id), <<>>, db)
    ELSE IF column_name \notin EDITABLE_COLUMNS
    THEN Outcome("ValueError", <<>>, db)
    ELSE Outcome("", <<>>, [db EXCEPT !.characters[Lower(char_id)] =
                                SetColumn(@, column_name, new_value)])

\* remove_character_from_server and add_character_to_server check the owner
\* with is_character_owner
MemberCheck(db, char_id, user_id) ==
    IF LoadCharacter(db, Lower(char_id)) = <<>> THEN "CharacterNotFoundError"
    ELSE IF ~IsCharacterOwner(db, Lower(char_id), user_id).value THEN "ForbiddenCharacterError"
    ELSE ""

RemoveCharacterFromServer(db, char_id, user_id, server_id) ==
    IF MemberCheck(db, char_id, user_id) # ""
    THEN Outcome(MemberCheck(db, char_id, user_id), <<>>, db)
    ELSE Outcome("", <<>>, [db EXCEPT !.server_characters =
                                @ \ {<<server_id, Lower(char_id)>>}])

AddCharacterToServer(db, char_id, user_id, server_id) ==
    IF MemberCheck(db, char_id, user_id) # ""
    THEN Outcome(MemberCheck(db, char_id, user_id), <<>>, db)
    ELSE Outcome("", <<>>, [db EXCEPT !.servers = @ \cup {server_id},
                                      !.server_characters =
                                            @ \cup {<<server_id, Lower(char_id)>>}])

\* the access check of respond_to_user: what it raises for the user
RespondToUser(db, char_id, user_id, server_id) ==
    LET can_access == CanAccessCharacter(db, char_id, user_id, server_id) IN
    IF can_access.raised # "" THEN can_access.raised
    ELSE IF ~can_access.value THEN "CharacterNotOnServerError"
    ELSE ""

\* the call leaves the tables of outcome o
Commit(o) ==
    /\ characters' = o.db.characters
    /\ servers' = o.db.servers
    /\ server_characters' = o.db.server_characters

Call(op, char_id, user_id, raised) ==
    [op |-> op, char_id |-> char_id, user_id |-> user_id, raised |-> raised]

dbRest == <<chain, config, default_system_prompt, message_index, it_pos,
            token_count, last_command_args, system_prompt, messages, cpc,
            visited, rejected, first_run, loopVars, handlerVars, pipeVars,
            splitVars, attachVars, captionVars, sendVars>>

DbCreate ==
    /\ \E c \in NewIdArgs, u \in UserIds :
        LET o == CreateCharacter(Db, c, u) IN
        /\ Commit(o)
        /\ db_call' = Call("create_character", c, u, o.raised)
    /\ UNCHANGED <<memberships, orphaned>>
    /\ UNCHANGED dbRest

DbDelete ==
    /\ \E c \in CharIdArgs, u \in UserIds :
        LET o == DeleteCharacter(Db, c, u) IN
        /\ Commit(o)
        /\ db_call' = Call("delete_character", c, u, o.raised)
        /\ memberships' = IF o.raised = "" THEN {a \in memberships : a[2] # Lower(c)}
                          ELSE memberships
        /\ orphaned' = IF o.raised = ""
                       THEN orphaned \cup {a \in memberships : a[2] = Lower(c)}
                       ELSE orphaned
    /\ UNCHANGED dbRest

\* the values update_character is given
NewValues == {2}

DbUpdate ==
    /\ \E c \in CharIdArgs, u \in UserIds, column \in {"description", "owner"},
          new_value \in NewValues :
        LET o == UpdateCharacter(Db, c, u, column, new_value) IN
        /\ Commit(o)
        /\ db_call' = Call("update_character", c, u, o.raised)
    /\ UNCHANGED <<memberships, orphaned>>
    /\ UNCHANGED dbRest

DbAddToServer ==
    /\ \E c \in CharIdArgs, u \in UserIds, sv \in OwnerServers :
        LET o == AddCharacterToServer(Db, c, u, sv) IN
        /\ Commit(o)
        /\ db_call' = Call("add_character_to_server", c, u, o.raised)
        /\ memberships' = IF o.raised = "" THEN memberships \cup {<<sv, Lower(c)>>} ELSE memberships
        /\ orphaned' = IF o.raised = "" THEN orphaned \ {<<sv, Lower(c)>>} ELSE orphaned
    /\ UNCHANGED dbRest

DbRemoveFromServer ==
    /\ \E c \in CharIdArgs, u \in UserIds, sv \in OwnerServers :
        LET o == RemoveCharacterFromServer(Db, c, u, sv) IN
        /\ Commit(o)
        /\ db_call' = Call("remove_character_from_server", c, u, o.raised)
        /\ memberships' = IF o.raised = "" THEN memberships \ {<<sv, Lower(c)>>} ELSE memberships
    /\ UNCHANGED orphaned
    /\ UNCHANGED dbRest

DbRespond ==
    /\ \E c \in CharIdArgs, u \in UserIds, sv \in ServerIds \cup {NoServer} :
        db_call' = Call("respond_to_user", c, u, RespondToUser(Db, c, u, sv))
    /\ UNCHANGED <<characters, servers, server_characters, memberships, orphaned>>
    /\ UNCHANGED dbRest

InitDb ==
    /\ Quiet
    /\ SendIdle
    /\ SplitIdle
    /\ AttachIdle
    /\ CaptionIdle
    /\ DbIdle

NextDb == DbCreate \/ DbDelete \/ DbUpdate \/ DbAddToServer \/ DbRemoveFromServer \/ DbRespond

SpecDb == InitDb /\ [][NextDb]_vars

\* the user may not use the character on the server
Refused(db, char_id, user_id, server_id) ==
    RespondToUser(db, char_id, user_id, server_id) # ""

\* C25: a user who may not use a character gets the same error from
\* respond_to_user whether the character exists (private, or not added to the
\* server) or does not exist: the outcome on the tables is the outcome on the
\* tables without that character.
C25_ExistenceHidden ==
    \A c \in CharIdArgs, u \in UserIds, sv \in ServerIds \cup {NoServer} :
        (Lower(c) \in DOMAIN characters /\ Refused(Db, c, u, sv)) =>
            RespondToUser(Db, c, u, sv) = RespondToUser(DeleteRow(Db, Lower(c)), c, u, sv)

\* C26: for an existing character, can_access_character is true exactly when
\* the user owns it or it was added to the server and not removed since.
C26_AccessIsOwnerOrMember ==
    \A c \in CharIdArgs, u \in UserIds, sv \in ServerIds \cup {NoServer} :
        Lower(c) \in DOMAIN characters =>
            /\ CanAccessCharacter(Db, c, u, sv).raised = ""
            /\ CanAccessCharacter(Db, c, u, sv).value =
                    (characters[Lower(c)].owner = u \/ <<sv, Lower(c)>> \in memberships)

\* "bob" of user 1 is on server 10, where user 2 may use it, while "eve" was
\* just taken off the server by its owner
C26_Witness ==
    /\ "bob" \in DOMAIN characters
    /\ characters["bob"].owner = 1
    /\ <<10, "bob">> \in memberships
    /\ db_call.op = "remove_character_from_server"
    /\ db_call.char_id = "eve"
    /\ db_call.raised = ""

CreateStep == db_call'.op = "create_character" /\ db_call' # db_call

\* what create_character is to do with an id in use, and with one not in use
CreatedOrRefused ==
    IF Lower(db_call'.char_id) \in DOMAIN characters
    THEN /\ db_call'.raised = "DuplicateCharacterError"
         /\ characters' = characters
    ELSE /\ db_call'.raised = ""
         /\ LoadCharacter([characters |-> characters'], db_call'.char_id) =
                <<[id |-> Lower(db_call'.char_id), owner |-> db_call'.user_id]>>

OwnerOnlyOps == {"update_character", "delete_character", "add_character_to_server",
                 "remove_character_from_server"}

OwnerOnlyStep == db_call'.op \in OwnerOnlyOps /\ db_call' # db_call

\* C28: the four owner-only calls raise CharacterNotFoundError for a character
\* that does not exist and ForbiddenCharacterError for a caller who is not the
\* owner, and then leave the tables as they were.
C28_RefusedCallsChangeNothing ==
    [][OwnerOnlyStep =>
        /\ Lower(db_call'.char_id) \notin DOMAIN characters
                => db_call'.raised = "CharacterNotFoundError"
        /\ (/\ Lower(db_call'.char_id) \in DOMAIN characters
            /\ characters[Lower(db_call'.char_id)].owner # db_call'.user_id)
                => db_call'.raised = "ForbiddenCharacterError"
        /\ db_call'.raised \in {"CharacterNotFoundError", "ForbiddenCharacterError"}
                => /\ characters' = characters
                   /\ server_characters' = server_characters
                   /\ servers' = servers]_vars

\* user 2 was refused the removal of user 1's character from its server
C28_Witness ==
    /\ db_call = Call("remove_character_from_server", "Bob", 2, "ForbiddenCharacterError")
    /\ <<10, "bob">> \in server_characters

DeleteStep ==
    /\ db_call'.op = "delete_character"
    /\ db_call'.raised = ""
    /\ db_call' # db_call

\* C29: after a successful delete_character the character cannot be loaded and
\* is on no server; when the id is created again, the users of the servers the
\* old character was on cannot use it before it is added there again.
C29_DeletionEndsMembership ==
    /\ [][DeleteStep =>
            /\ LoadCharacter([characters |-> characters'], db_call'.char_id) = <<>>
            /\ \A sc \in server_characters' : sc[2] # Lower(db_call'.char_id)]_vars
    /\ [](\A a \in orphaned : \A u \in UserIds :
            (a[2] \in DOMAIN characters /\ characters[a[2]].owner # u)
                => ~CanAccessCharacter(Db, a[2], u, a[1]).value)

\* "bob" was on server 10, was deleted and exists again, owned by user 2
C29_Witness ==
    /\ <<10, "bob">> \in orphaned
    /\ "bob" \in DOMAIN characters
    /\ characters["bob"].owner = 2
    /\ db_call.op = "respond_to_user"


-----------------------------------------------------------------------------
(* Claims about the run of messages a compiled context is made of *)

\* a message that is neither a command nor a notice of the bot's own: the loop
\* has no reason but the budget to leave it out
PlainMessage(id) == ~IsCommand(id) /\ ~IsSystemMessage(Message(id))

\* the parts a turn can hold for one attachment when nothing is cut: the file's
\* entire text under its heading, the image's address, or one of the notices
WholeAttachmentParts(att) ==
    LET r == ReadAttachment(att, config) IN
    IF r = <<>> THEN {<<>>}
    ELSE {<<TextPart(EmptyNotice)>>, <<TextPart(TooLargeNotice)>>,
          <<TextPart(FileNotice(att.filename, r[1].string))>>}
         \cup (IF r[1].type = "image_url" /\ r[1].string # <<>>
               THEN {<<[type |-> "image_url", url |-> r[1].string[1]]>>} ELSE {})

RECURSIVE WholeAttachments(_, _)
WholeAttachments(atts, parts) ==
    IF atts = <<>> THEN parts = <<>>
    ELSE \E p \in WholeAttachmentParts(Head(atts)) :
            /\ Len(parts) >= Len(p)
            /\ SubSeq(parts, 1, Len(p)) = p
            /\ WholeAttachments(Tail(atts), SubSeq(parts, Len(p) + 1, Len(parts)))

\* a turn holds its message whole: after the name annotation comes the entire
\* text of the message (of a command, its entire prompt), then its attachments
IncludedWhole(turn) ==
    LET id   == chain[turn.msg]
        m    == Message(id)
        body == Tail(turn.content)
    IN  /\ Len(turn.content) >= 2
        /\ <<Head(turn.content)>> = NameAnnotation(m)
        /\ IF IsCommand(id)
           THEN body = <<TextPart(CommandOf(id).args.prompt)>>
           ELSE /\ Head(body) = TextPart(MessageText(m))
                /\ WholeAttachments(m.attachments, Tail(body))

\* the message at position pos of the chain would have been made a turn had the
\* loop gone on to it with the tokens counted so far
WouldFit(pos) ==
    LET r == LoopBody(Message(chain[pos]), pos)
    IN  r.kind = "next" /\ r.token_count > token_count

\* C30: the turns of a compiled context come from one contiguous run of the
\* newest-first walk: the walk ends at the message the budget check rejects, so
\* every turn comes from a message newer than it, no plain message met before it
\* is left out, the turns keep the order of the chain, and every turn holds its
\* message whole, nothing of it cut to fit.
C30_ContiguousWholeTurns ==
    /\ rejected # 0 => Returned /\ visited[Len(visited)] = rejected
    /\ \A i \in 1..Len(visited) : visited[i] = i
    /\ Returned =>
          /\ \A k \in 1..Len(Turns) :
                /\ Turns[k].msg \in 1..Len(visited)
                /\ Turns[k].msg # rejected
                /\ IncludedWhole(Turns[k])
                /\ k < Len(Turns) => Turns[k].msg > Turns[k + 1].msg
          /\ \A i \in 1..Len(visited) :
                (PlainMessage(chain[i]) /\ i # rejected)
                    => \E k \in 1..Len(Turns) : Turns[k].msg = i

\* a walk that stopped at a message with a file too long for the room left, after
\* making a turn of a newer message, and left out an older message that would fit
C30_Witness ==
    /\ Returned
    /\ rejected = 2
    /\ Len(chain) = 3
    /\ Len(Turns) = 1
    /\ Turns[1].msg = 1
    /\ PlainMessage(chain[3])
    /\ WouldFit(3)

-----------------------------------------------------------------------------
(* Claims about the system turn and the roles of a compiled history *)

\* the system prompt the loop pinned, or the default one when it pinned none
PinnedOrDefault ==
    IF Truthy(system_prompt) THEN system_prompt[1] ELSE default_system_prompt

SystemTurns == SelectSeq(messages, LAMBDA t : t.role = "system")

\* exactly one system turn, the first; every other turn has the role of its
\* message's author and starts with the name annotation
OneSystemTurnAndRoles ==
    /\ Len(SystemTurns) = 1
    /\ messages[1].role = "system"
    /\ Len(messages[1].content) = 1
    /\ \A k \in 2..Len(messages) :
          LET m == Message(chain[messages[k].msg]) IN
          /\ messages[k].role = (IF m.author = BotUserId THEN "assistant" ELSE "user")
          /\ NameAnnotation(m) # <<>>
          /\ messages[k].content[1] = NameAnnotation(m)[1]

\* C31 as stated: every compiled history has exactly one system turn, the first,
\* whose text is the pinned system prompt if one was pinned and the default
\* system prompt otherwise; every other turn has role assistant if the bot wrote
\* its message and user otherwise, and its first content part is the name
\* annotation.
C31_SystemTurnAndRoles ==
    Returned =>
        /\ OneSystemTurnAndRoles
        /\ messages[1].content[1] = TextPart(PinnedOrDefault)

\* C31 amended: the same, the text of the system turn being followed by a line
\* break and the tool instructions when tool use is enabled.
C31_SystemTurnWithToolPrompt ==
    Returned =>
        /\ OneSystemTurnAndRoles
        /\ messages[1].content[1] =
              TextPart(IF config.use_tools
                       THEN PinnedOrDefault \o <<"\n">> \o config.tool_prompt
                       ELSE PinnedOrDefault)

\* a history with a pinned prompt, the tool instructions, a turn of the bot and a
\* turn of a user
C31_Witness ==
    /\ Returned
    /\ config.use_tools
    /\ Truthy(system_prompt)
    /\ \E k \in 2..Len(messages) : messages[k].role = "assistant"
    /\ \E k \in 2..Len(messages) : messages[k].role = "user"

-----------------------------------------------------------------------------
(* Claims about the turns the tool loop appends *)

\* the step took a completion in which the loop detects a tool call
ToolCallStep ==
    /\ lpc = "loop"
    /\ Len(received') = Len(received) + 1
    /\ received'[Len(received')] # <<>>
    /\ ToolCallDetected(received'[Len(received')][1])

\* the completions received so far in which the loop detected a tool call
ToolRounds ==
    {k \in 1..Len(received) : received[k] # <<>> /\ ToolCallDetected(received[k][1])}

\* the history is the initial (empty) one followed by one assistant turn and one
\* tool turn for each tool round
PairsPerRound ==
    /\ Len(chat_history) = 2 * Cardinality(ToolRounds)
    /\ \A j \in 1..Len(chat_history) :
          chat_history[j].role = (IF j % 2 = 1 THEN "assistant" ELSE "tool")

\* C32: each detected tool call appends exactly two turns, an assistant turn
\* with the raw completion and then a tool turn with the response or the failure
\* notice, within the round that received it, so that whenever a completion is
\* requested the history is the initial one followed by one assistant/tool pair
\* for each tool round so far.
C32_TwoTurnsPerToolCall ==
    /\ []PairsPerRound
    /\ [][ToolCallStep =>
            /\ Len(chat_history') = Len(chat_history) + 2
            /\ SubSeq(chat_history', 1, Len(chat_history)) = chat_history
            /\ chat_history'[Len(chat_history) + 1]
                  = AssistantTurn(CloseTag(received'[Len(received')][1]))
            /\ chat_history'[Len(chat_history) + 2].role = "tool"]_vars

-----------------------------------------------------------------------------
(* Claims about the updates the worker emits for one request *)

\* the worker took request n off the queue and is through with it
Served(n) ==
    /\ generation_request # <<>>
    /\ \/ generation_request[1].req > n
       \/ generation_request[1].req = n /\ wpc = "get"

\* the updates of request n follow one another in the history, none of another
\* request between them
Unbroken(log, n) ==
    \A i, j \in UpdatesOf(log, n) : \A k \in i..j : log[k].req = n

\* each update of request n holds the text of the one before it and at most
\* BatchTokens further tokens; the first holds at most BatchTokens
Cumulative(log, n) ==
    \A i \in UpdatesOf(log, n) :
        IF i - 1 \in UpdatesOf(log, n)
        THEN /\ log[i].new_message.tokens >= log[i - 1].new_message.tokens
             /\ log[i].new_message.chars >= log[i - 1].new_message.chars
             /\ log[i].new_message.tokens - log[i - 1].new_message.tokens <= BatchTokens
        ELSE log[i].new_message.tokens <= BatchTokens

\* C33: for each request the worker serves without error it emits at least one
\* update; every update carries the response id of the request taken off the
\* queue; each update's text is the previous one's extended by at most 200
\* tokens; exactly one update is marked completed, the last one for that request,
\* and it is emitted before any update of the next request.
C33_UpdatesOfOneRequest ==
    \A n \in 1..Len(enqueued) :
        n \notin failed =>
            /\ \A i \in UpdatesOf(emitted, n) :
                  /\ emitted[i].response_index = enqueued[n].response_index
                  /\ emitted[i].error = NoError
                  /\ emitted[i].message_is_completed
                        => \A j \in UpdatesOf(emitted, n) : j <= i
            /\ Unbroken(emitted, n)
            /\ Cumulative(emitted, n)
            /\ \A i \in UpdatesOf(emitted, n) : \A j \in DOMAIN emitted :
                  emitted[j].req > n => i < j
            /\ Served(n) =>
                  /\ UpdatesOf(emitted, n) # {}
                  /\ Cardinality(FinalUpdatesOf(emitted, n)) = 1

\* two requests with different ids were served without error, the second in
\* three updates
C33_Witness ==
    /\ Len(enqueued) >= 2
    /\ enqueued[1].response_index # enqueued[2].response_index
    /\ failed = {}
    /\ Served(1) /\ Served(2)
    /\ Cardinality(UpdatesOf(emitted, 2)) = 3

-----------------------------------------------------------------------------
(* Claims about the messages the handlers answer *)

\* the message is the bot's own or was sent by a webhook
OwnOrWebhook(m) == Message(m.id).author = BotUserId \/ m.webhook_id

\* the handler added no reaction to message k and sent nothing
NothingDone(k) == reactions[k] = {} /\ replies[k] = <<>>

MaxSends == 3

\* the id of the message of the user
UserMessageId == 0

\* the lengths of the texts send_response is called with: around the multiples
\* of CHAR_LIMIT
ResponseLengths ==
    {n \in {k * CHAR_LIMIT + d : k \in 0..MaxSends, d \in -2..2} :
        n >= 0 /\ n <= MaxSends * CHAR_LIMIT}

\* len("...")
DefaultResponseLength == 3

\* response_text[msg_index * CHAR_LIMIT : (msg_index + 1) * CHAR_LIMIT]
MessageTextSlice(nchars, index) ==
    [from |-> index * CHAR_LIMIT, to |-> Min((index + 1) * CHAR_LIMIT, nchars)]

\* a reply always made to the message of the user
ReplyTarget_AlwaysUser(index, to_reply, last) == to_reply[1]

\* the message the next message replies to: the user's for the first, else the
\* message sent last
ReplyTarget(index, to_reply, last) ==
    IF index = 0 THEN to_reply[1] ELSE last[1]

sendRest == <<chain, config, default_system_prompt, message_index, it_pos,
              token_count, last_command_args, system_prompt, messages, cpc,
              visited, rejected, first_run, loopVars, handlerVars, pipeVars,
              splitVars, attachVars, captionVars, dbVars>>

\* send_response up to the while loop: the default text, and the reply that
\* carries the embed
SendStart ==
    /\ spc = "start"
    /\ response_text' = IF ~embed /\ response_text = 0
                        THEN DefaultResponseLength ELSE response_text
    /\ IF embed
       THEN IF message_to_reply = <<>>
            THEN spc' = "raised" /\ UNCHANGED <<sent, last_message>>
            ELSE /\ sent' = Append(sent, [content |-> EmptySlice, embed |-> TRUE,
                                          reference |-> message_to_reply[1],
                                          mention_author |-> TRUE])
                 /\ spc' = "returned"
                 /\ UNCHANGED last_message
       ELSE spc' = "loop" /\ UNCHANGED <<sent, last_message>>
    /\ UNCHANGED <<given_text, embed, message_to_reply, msg_index>>
    /\ UNCHANGED sendRest

\* the test of the while loop and one pass of its body
SendNext ==
    /\ spc = "loop"
    /\ IF msg_index * CHAR_LIMIT < response_text
       THEN IF message_to_reply # <<>>
            THEN /\ sent' = Append(sent,
                        [content |-> MessageTextSlice(response_text, msg_index),
                         embed |-> FALSE,
                         reference |-> ReplyTarget(msg_index, message_to_reply, last_message),
                         mention_author |-> (msg_index = 0)])
                 /\ last_message' = <<Len(sent) + 1>>
                 /\ msg_index' = msg_index + 1
                 /\ UNCHANGED spc
            ELSE /\ spc' = "raised"
                 /\ UNCHANGED <<sent, last_message, msg_index>>
       ELSE /\ spc' = "returned"
            /\ UNCHANGED <<sent, last_message, msg_index>>
    /\ UNCHANGED <<response_text, given_text, embed, message_to_reply>>
    /\ UNCHANGED sendRest

InitSend ==
    /\ Quiet
    /\ SplitIdle
    /\ AttachIdle
    /\ CaptionIdle
    /\ DbIdle
    /\ response_text \in ResponseLengths
    /\ given_text = response_text
    /\ embed \in BOOLEAN
    /\ message_to_reply \in {<<>>, <<UserMessageId>>}
    /\ msg_index = 0
    /\ last_message = <<>>
    /\ sent = <<>>
    /\ spc = "start"

NextSend == SendStart \/ SendNext

SpecSend == InitSend /\ [][NextSend]_vars

\* the slices of the messages sent follow one another from the start of the text
Consecutive ==
    /\ sent # <<>> => sent[1].content.from = 0
    /\ \A k \in 1..(Len(sent) - 1) : sent[k + 1].content.from = sent[k].content.to

\* C35: send_response without an embed, for a non-empty text of length L and a
\* message of the user to reply to, sends ceil(L / CHAR_LIMIT) messages of at
\* most CHAR_LIMIT characters each, whose contents in sending order make up the
\* text exactly; the first replies to the user's message and each later one to
\* the message sent just before it.
C35_ResponseResegmented ==
    (~embed /\ given_text > 0 /\ message_to_reply # <<>>) =>
        /\ spc # "raised"
        /\ response_text = given_text
        /\ Consecutive
        /\ \A k \in 1..Len(sent) :
              /\ sent[k].content.to > sent[k].content.from
              /\ sent[k].content.to - sent[k].content.from <= CHAR_LIMIT
              /\ sent[k].content.to <= given_text
              /\ sent[k].reference = (IF k = 1 THEN UserMessageId ELSE k - 1)
        /\ spc = "returned" =>
              /\ Len(sent) = (given_text + CHAR_LIMIT - 1) \div CHAR_LIMIT
              /\ sent[Len(sent)].content.to = given_text

\* a text of one character more than two messages hold was sent in three
C35_Witness ==
    /\ spc = "returned"
    /\ ~embed
    /\ given_text = 2 * CHAR_LIMIT + 1
    /\ Len(sent) = 3
    /\ sent[3].reference = 2

-----------------------------------------------------------------------------
(* Claims about the turn of the triggering message *)

\* the triggering message is a command that sets the system prompt
TriggerIsPin ==
    /\ IsCommand(chain[1])
    /\ CommandOf(chain[1]).raised = ""
    /\ CommandOf(chain[1]).args.use_as_system_prompt

\* C36: whenever compile_chat_history returns for a message of a user, the
\* history holds a turn made from that message, whatever its size, the size of
\* the default system prompt and the budget, unless the message is itself a
\* command pinned as system prompt.
C36_TriggeringMessageIncluded ==
    (Returned /\ Message(chain[1]).author # BotUserId /\ ~TriggerIsPin)
        => \E k \in 1..Len(Turns) : Turns[k].msg = 1

-----------------------------------------------------------------------------
(* Claims about the owner of a character *)

\* C37: the owner of a character does not change from its creation to its
\* deletion, whatever calls of update_character, add_character_to_server,
\* remove_character_from_server and create_character any users make, and
\* whether they succeed or fail.
C37_OwnerNeverChanges ==
    [][\A c \in DOMAIN characters \cap DOMAIN characters' :
            characters'[c].owner = characters[c].owner]_vars

\* user 1, the owner of "bob", has updated its description and is still the
\* owner
C37_Witness ==
    /\ db_call = Call("update_character", "Bob", 1, "")
    /\ "bob" \in DOMAIN characters
    /\ characters["bob"].owner = 1
    /\ characters["bob"].description = <<2>>

-----------------------------------------------------------------------------
(* Claims about the termination of split_text *)

\* C38: split_text returns on every input, and what it returns holds the text's
\* characters other than whitespace, each once and in their order: the pieces
\* put together with all whitespace deleted are the text with all whitespace
\* deleted.
C38_TerminatesKeepingContent ==
    /\ ~Hangs(input_text, max_length)
    /\ pieces # <<>> => NonBlank(Concatenation(pieces[1])) = NonBlank(input_text)

=============================================================================
